---- MODULE Spec2Model ----
(***************************************************************************)
(* Comic generation pipeline of nano_b_hack: script parser, character      *)
(* manager, panel reference selection, per-panel image generation and      *)
(* assembly.                                                               *)
(*                                                                         *)
(* Text is modelled as a sequence of tokens.  Every token is the literal   *)
(* piece of text it stands for, and the text is the concatenation of its   *)
(* tokens.  The token alphabet is chosen so that the regular expressions   *)
(* of the parser can only match at token boundaries.                       *)
(***************************************************************************)
EXTENDS Integers, Sequences, FiniteSets, TLC

VARIABLES
    pc,                 \* position of the running operation
    script_text,        \* raw script text (token sequence)
    script,             \* Script: [title, panels, characters]
    characters_cache,   \* CharacterManagerService.characters_cache: name_key -> Character
    registry_file,      \* characters.json on disk: NoFile, InvalidJson, NotRegistry or RegistryFile(mapping)
    files,              \* panel image files present in the output directory
    image_paths,        \* list built by generate_all_panel_images
    idx,                \* loop position of generate_all_panel_images (0-based count of attempted panels)
    progress,           \* messages passed to progress_callback in this run
    trace,              \* stages entered by generate_comic in this run
    outcome,            \* result of generate_comic: <<>> running, <<"ok", path>> or <<"raise">>
    run,                \* number of generate_comic runs the pipeline has started in this process
    ref_panel,          \* panel number last passed to determine_reference_panels
    ref_result,         \* value it returned
    unreadable,         \* files of the output directory that exist but cannot be opened as images
    response,           \* backend response of the last generate_panel_image call
    call,               \* a function called on its own: [input, result]
    request,            \* what the last generate_panel_image call sent to the backend: [context, images]
    tasks               \* api_server.tasks: task_id -> [status, message, result, error]

vars == <<pc, script_text, script, characters_cache, registry_file, files,
          image_paths, idx, progress, trace, outcome, run, ref_panel, ref_result,
          unreadable, response, call, request, tasks>>

----------------------------------------------------------------------------
(* Bounds *)

MaxBlocks == 3      \* PANEL blocks in a parser input
MaxSectionLines == 2    \* lines of the DIALOGUE: section in the one-block parser inputs
MaxRefPanels == 6   \* panels of a script in the reference-selection runs
MaxLines == 6       \* dialogue lines of a script in the reference-selection runs
MaxExtractPanels == 4   \* panels of a script in the repeated-extraction runs
MaxExtractLines == 5    \* dialogue lines of a script in the repeated-extraction runs
MaxRuns == 2        \* generate_comic runs of one process
MaxRunPanels == 2   \* PANEL blocks of a script text in a generate_comic run

----------------------------------------------------------------------------
(* Generic helpers *)

Min(S) == CHOOSE x \in S : \A y \in S : x <= y
Max(S) == CHOOSE x \in S : \A y \in S : x >= y
Range(s) == {s[i] : i \in 1..Len(s)}
Contains(s, x) == \E i \in 1..Len(s) : s[i] = x

RECURSIVE SortedInsert(_, _)
SortedInsert(s, x) ==
    IF s = <<>> THEN <<x>>
    ELSE IF x < Head(s) THEN <<x>> \o s
    ELSE <<Head(s)>> \o SortedInsert(Tail(s), x)

RECURSIVE ListSort(_)
\* list.sort() on a list of integers (duplicates kept)
ListSort(s) == IF s = <<>> THEN <<>> ELSE SortedInsert(ListSort(Tail(s)), Head(s))

RECURSIVE Perms(_)
\* all orderings of a finite set, as sequences
Perms(S) ==
    IF S = {} THEN {<<>>}
    ELSE UNION {{<<x>> \o p : p \in Perms(S \ {x})} : x \in S}

----------------------------------------------------------------------------
(* Token alphabet *)

PanelHeaders == {"PANEL 1:", "PANEL 2:", "PANEL 7:"}
\* int(panel_number_str) of a header
HeaderNumber(t) == CASE t = "PANEL 1:" -> 1 [] t = "PANEL 2:" -> 2 [] t = "PANEL 7:" -> 7

WhiteSpace == {" ", "\n"}
\* tokens that re 'SCENE:', 'DIALOGUE:', 'NARRATION:', 'PANEL' match (IGNORECASE)
SceneKw == {"SCENE:"}
DialogueKw == {"DIALOGUE:"}
NarrationKw == {"NARRATION:"}
PanelWord == {"panel"} \cup PanelHeaders
TitleKw == {"TITLE:", "Title:"}
\* values of dialogue_text.lower() / narration.lower() in ['[none]', 'none']
NoneTokens == {"none", "None", "NONE", "[none]"}
\* tokens of the form <letters>: and the letters
SpeakerTags == {"Oga:", "oga:", "OGA:", "Ila:", "Uma:", "X:", "SCENE:", "DIALOGUE:", "NARRATION:",
                "TITLE:", "Title:"}
TagName(t) ==
    CASE t = "Oga:" -> "Oga" [] t = "oga:" -> "oga" [] t = "OGA:" -> "OGA"
      [] t = "Ila:" -> "Ila" [] t = "Uma:" -> "Uma" [] t = "X:" -> "X"
      [] t = "SCENE:" -> "SCENE" [] t = "DIALOGUE:" -> "DIALOGUE"
      [] t = "NARRATION:" -> "NARRATION" [] t = "TITLE:" -> "TITLE" [] t = "Title:" -> "Title"
\* plain words: letters only, no keyword inside
Words == {"cave", "fire", "hi", "old", "Saga"}
\* tokens containing ':'
ColonTokens == SpeakerTags \cup PanelHeaders
\* tokens whose first character is '['
BracketTokens == {"[none]"}

\* str.title() on the speaker names of the alphabet
StrTitle(n) ==
    CASE n \in {"Oga", "oga", "OGA"} -> "Oga"
      [] n = "Ila" -> "Ila" [] n = "Uma" -> "Uma" [] n = "X" -> "X"
      [] n = "SCENE" -> "Scene" [] n = "DIALOGUE" -> "Dialogue"
      [] n = "NARRATION" -> "Narration" [] n = "TITLE" -> "Title"
      [] OTHER -> n
\* str.lower() on the names of the alphabet
StrLower(n) ==
    CASE n \in {"Oga", "oga", "OGA"} -> "oga"
      [] n = "Ila" -> "ila" [] n = "Uma" -> "uma" [] n = "X" -> "x"
      [] n \in {"Scene", "SCENE"} -> "scene" [] n \in {"Dialogue", "DIALOGUE"} -> "dialogue"
      [] n \in {"Narration", "NARRATION"} -> "narration" [] n \in {"Title", "TITLE"} -> "title"
      [] OTHER -> n
\* len(name) > 1
LongName(n) == n # "X"

\* str.strip() on a token sequence
Strip(s) ==
    LET nz == {i \in 1..Len(s) : s[i] \notin WhiteSpace}
    IN IF nz = {} THEN <<>> ELSE SubSeq(s, Min(nz), Max(nz))

\* least index >= from of a token in T, or Len(s)+1
FirstAt(s, T, from) ==
    LET S == {i \in from..Len(s) : s[i] \in T}
    IN IF S = {} THEN Len(s) + 1 ELSE Min(S)

----------------------------------------------------------------------------
(* ScriptParserService *)

\* re.search(KW \s*(.+?)(?=stops|\Z), content, IGNORECASE|DOTALL), then
\* group(1).strip().  \s* is greedy and (.+?) takes at least one character,
\* so the group starts at the first non-blank token after the keyword, even
\* when that token is itself a section keyword, and runs up to the next stop
\* token after it.
SectionMatch(content, kw, stops) ==
    LET cand == {i \in 1..(Len(content) - 1) : content[i] \in kw}
    IN IF cand = {} THEN [found |-> FALSE, text |-> <<>>]
       ELSE LET s == Min(cand)
                nb == {i \in (s + 1)..Len(content) : content[i] \notin WhiteSpace}
            IN IF nb = {} THEN [found |-> TRUE, text |-> <<>>]
               ELSE LET first == Min(nb)
                        stop == FirstAt(content, stops, first + 1)
                    IN [found |-> TRUE, text |-> Strip(SubSeq(content, first, stop - 1))]

_extract_scene(content) ==
    SectionMatch(content, SceneKw, DialogueKw \cup NarrationKw \cup PanelWord).text

RECURSIVE SplitLines(_)
\* str.split('\n'), each piece stripped, empty pieces removed
SplitLines(s) ==
    IF s = <<>> THEN <<>>
    ELSE LET nl == FirstAt(s, {"\n"}, 1)
             line == Strip(SubSeq(s, 1, nl - 1))
             rest == IF nl >= Len(s) THEN <<>> ELSE SubSeq(s, nl + 1, Len(s))
         IN (IF line = <<>> THEN <<>> ELSE <<line>>) \o SplitLines(rest)

\* the filter of lines 107-115
KeepDialogueLine(line) ==
    /\ line[1] \notin BracketTokens
    /\ \/ /\ \E i \in 1..Len(line) : line[i] \in ColonTokens
          /\ line[1] \notin DialogueKw
       \/ line[1] \notin (SceneKw \cup DialogueKw \cup NarrationKw)

_extract_dialogue(content) ==
    LET m == SectionMatch(content, DialogueKw, NarrationKw \cup PanelWord)
    IN IF ~m.found THEN <<>>
       ELSE IF m.text = <<>> \/ (Len(m.text) = 1 /\ m.text[1] \in NoneTokens) THEN <<>>
       ELSE SelectSeq(SplitLines(m.text), KeepDialogueLine)

\* None is modelled as the empty sequence (a kept narration is never empty)
_extract_narration(content) ==
    LET m == SectionMatch(content, NarrationKw, PanelWord)
    IN IF m.found /\ m.text # <<>> /\ ~(Len(m.text) = 1 /\ m.text[1] \in NoneTokens)
       THEN m.text ELSE <<>>

\* Panel(...) as built by _parse_panel_content; image_prompt is computed in
\* Panel.__post_init__ from the fields at construction time
NewPanel(panel_number, scene, dialogue, narration) ==
    [panel_number |-> panel_number,
     scene_description |-> scene,
     dialogue |-> dialogue,
     narration |-> narration,
     image_path |-> <<>>,
     image_prompt |-> [number |-> panel_number, scene |-> scene],
     characters_in_panel |-> <<>>,
     reference_panels |-> <<>>]

\* <<>> stands for the None result
_parse_panel_content(panel_number, content) ==
    LET scene == _extract_scene(content)
    IN IF scene = <<>> THEN <<>>
       ELSE <<NewPanel(panel_number, scene, _extract_dialogue(content), _extract_narration(content))>>

\* positions of the matches of PANEL\s+(\d+):
HeaderPositions(text) == {i \in 1..Len(text) : text[i] \in PanelHeaders}

\* end of (.*?)(?=PANEL\s+\d+:|$) for the header at position h: the next
\* header, or the end of the text, where $ also matches before a final newline
ChunkEnd(text, h) ==
    LET nxt == FirstAt(text, PanelHeaders, h + 1)
    IN IF nxt <= Len(text) THEN nxt - 1
       ELSE IF Len(text) > h /\ text[Len(text)] = "\n" THEN Len(text) - 1
       ELSE Len(text)

Chunk(text, h) == SubSeq(text, h + 1, ChunkEnd(text, h))

RECURSIVE PanelsFrom(_, _)
PanelsFrom(text, hs) ==
    IF hs = {} THEN <<>>
    ELSE LET h == Min(hs)
         IN _parse_panel_content(HeaderNumber(text[h]), Chunk(text, h))
            \o PanelsFrom(text, hs \ {h})

_extract_panels(text) == PanelsFrom(text, HeaderPositions(text))

UntitledComic == <<"Untitled Comic">>

\* re.search(TITLE:\s*(.+)) without DOTALL: \s* also skips newlines, (.+)
\* runs to the end of that line
_extract_title(text) ==
    LET cand == {i \in 1..(Len(text) - 1) : text[i] \in TitleKw
                    /\ \E j \in (i + 1)..Len(text) : text[j] # "\n"}
        first_line == Strip(SubSeq(text, 1, FirstAt(text, {"\n"}, 1) - 1))
    IN IF cand # {}
       THEN LET s == Min(cand)
                nb == {i \in (s + 1)..Len(text) : text[i] \notin WhiteSpace}
            IN IF nb = {} THEN <<>>
               ELSE Strip(SubSeq(text, Min(nb), FirstAt(text, {"\n"}, Min(nb)) - 1))
       ELSE IF first_line # <<>> /\ first_line[1] \notin PanelHeaders THEN first_line
       ELSE UntitledComic

\* Script.__post_init__ without the renumbering loop
Renumber_Keep(panels) == panels

\* Script.__post_init__: panels are renumbered 1..N
Renumber(panels) == [i \in 1..Len(panels) |-> [panels[i] EXCEPT !.panel_number = i]]

parse_script(text) ==
    [title |-> _extract_title(text),
     panels |-> Renumber(_extract_panels(text)),
     characters |-> <<>>]

NoScript == [title |-> <<>>, panels |-> <<>>, characters |-> <<>>]

----------------------------------------------------------------------------
(* Character *)

\* first_appearance_panel None is modelled as 0 (panel numbers start at 1)
NoPanel == 0

\* add_appearance recording the panel of the latest call as the first one
add_appearance_Latest(ch, panel_number) ==
    [ch EXCEPT
        !.first_appearance_panel = panel_number,
        !.reference_panels = IF Contains(@, panel_number) THEN @ ELSE Append(@, panel_number)]

\* add_appearance inserting the new panel number at the front of the list
add_appearance_Front(ch, panel_number) ==
    [ch EXCEPT
        !.first_appearance_panel = IF @ = NoPanel THEN panel_number ELSE @,
        !.reference_panels = IF Contains(@, panel_number) THEN @ ELSE <<panel_number>> \o @]

\* add_appearance appending without the membership test
add_appearance_NoDedup(ch, panel_number) ==
    [ch EXCEPT
        !.first_appearance_panel = IF @ = NoPanel THEN panel_number ELSE @,
        !.reference_panels = Append(@, panel_number)]

\* Character.add_appearance
add_appearance(ch, panel_number) ==
    [ch EXCEPT
        !.first_appearance_panel = IF @ = NoPanel THEN panel_number ELSE @,
        !.reference_panels = IF Contains(@, panel_number) THEN @ ELSE Append(@, panel_number)]

RECURSIVE TakeUpTo(_, _, _)
\* the loop of get_reference_panels: append panels while len(references) < max
TakeUpTo(references, recent, max) ==
    IF recent = <<>> \/ Len(references) >= max THEN references
    ELSE TakeUpTo(Append(references, Head(recent)), Tail(recent), max)

Reverse(s) == [i \in 1..Len(s) |-> s[Len(s) + 1 - i]]

\* get_reference_panels filling up with the oldest other panels
get_reference_panels_Oldest(ch, max_references) ==
    IF ch.reference_panels = <<>> THEN <<>>
    ELSE LET references == IF ch.first_appearance_panel # NoPanel
                           THEN <<ch.first_appearance_panel>> ELSE <<>>
             not_first(p) == p # ch.first_appearance_panel
             recent_panels == ListSort(SelectSeq(ch.reference_panels, not_first))
         IN ListSort(TakeUpTo(references, recent_panels, max_references))

\* Character.get_reference_panels(max_references)
get_reference_panels(ch, max_references) ==
    IF ch.reference_panels = <<>> THEN <<>>
    ELSE LET references == IF ch.first_appearance_panel # NoPanel
                           THEN <<ch.first_appearance_panel>> ELSE <<>>
             not_first(p) == p # ch.first_appearance_panel
             recent_panels == Reverse(ListSort(SelectSeq(ch.reference_panels, not_first)))
         IN ListSort(TakeUpTo(references, recent_panels, max_references))

\* default of max_references in Character.get_reference_panels
DefaultMaxReferences == 3

----------------------------------------------------------------------------
(* Panel and Script methods *)

\* Panel.add_character
Panel_add_character(characters_in_panel, character_name) ==
    IF Contains(characters_in_panel, character_name) THEN characters_in_panel
    ELSE Append(characters_in_panel, character_name)

\* Script.characters is the list of the Character objects added to the script.
\* Script.add_character
Script_add_character(characters, character) ==
    IF \E i \in 1..Len(characters) : characters[i].name = character.name
    THEN characters ELSE Append(characters, character)

\* The objects of script.characters are the objects of the manager's cache
\* until load_characters puts new objects into the cache: what a method does
\* to the cached character shows in the script's entry of that name.
SharedCharacter(characters, character) ==
    [i \in 1..Len(characters) |->
        IF characters[i].name = character.name THEN character ELSE characters[i]]

\* Script.get_character_reference_panels: get_character is a case-insensitive
\* search of script.characters, a miss gives []
get_character_reference_panels(characters, character_name) ==
    LET hits == {i \in 1..Len(characters) :
                    StrLower(characters[i].name) = StrLower(character_name)}
    IN IF hits = {} THEN <<>>
       ELSE get_reference_panels(characters[Min(hits)], DefaultMaxReferences)

----------------------------------------------------------------------------
(* CharacterManagerService *)

\* re.match(^([A-Za-z\s]+):\s*(.+)) on a dialogue line.  The lines of the
\* inputs used here carry the speaker tag as their first token; the match
\* needs text after the colon.
LineHasSpeaker(line) == Len(line) >= 2 /\ line[1] \in SpeakerTags

RECURSIVE _extract_character_names_from_dialogue(_)
_extract_character_names_from_dialogue(dialogue) ==
    IF dialogue = <<>> THEN <<>>
    ELSE LET line == Head(dialogue)
             rest == _extract_character_names_from_dialogue(Tail(dialogue))
         IN IF LineHasSpeaker(line) /\ LongName(TagName(line[1]))
            THEN <<TagName(line[1])>> \o rest ELSE rest

\* set([name.title() for name in character_names if name])
TitledNames(dialogue) ==
    {StrTitle(n) : n \in Range(_extract_character_names_from_dialogue(dialogue))}

\* vocabulary of _generate_character_description found in the tokens
DescriptorWords == <<"old">>

\* _generate_character_description: the name and the descriptor words that
\* occur in the scene text
_generate_character_description(name, context) ==
    [name |-> name, words |-> SelectSeq(DescriptorWords, LAMBDA w : Contains(context, w))]

NewCharacter(name, context) ==
    [name |-> name,
     visual_description |-> _generate_character_description(name, context),
     reference_panels |-> <<>>,
     first_appearance_panel |-> NoPanel]

\* _get_or_create_character: the cache after the call (the key is name.lower())
_get_or_create_character(cache, name, context) ==
    LET key == StrLower(name)
    IN IF key \in DOMAIN cache THEN cache
       ELSE [k \in DOMAIN cache \cup {key} |->
                IF k = key THEN NewCharacter(name, context) ELSE cache[k]]

\* update_character_description: the cache after the call
update_character_description(cache, name, description) ==
    LET name_key == StrLower(name)
    IN IF name_key \in DOMAIN cache
       THEN [cache EXCEPT ![name_key].visual_description = description]
       ELSE cache

\* body of the inner loop of extract_characters_from_script for one name.
\* st is [panels, cache, characters]
RegisterName(st, i, char_name) ==
    LET key == StrLower(char_name)
        panel == st.panels[i]
        created == _get_or_create_character(st.cache, char_name, panel.scene_description)
        cache2 == [created EXCEPT ![key] = add_appearance(@, panel.panel_number)]
    IN [panels |-> [st.panels EXCEPT ![i].characters_in_panel =
                        Panel_add_character(@, char_name)],
        cache |-> cache2,
        characters |-> Script_add_character(SharedCharacter(st.characters, cache2[key]),
                                            cache2[key])]

RECURSIVE RegisterNames(_, _, _)
RegisterNames(st, i, names) ==
    IF names = <<>> THEN st
    ELSE RegisterNames(RegisterName(st, i, Head(names)), i, Tail(names))

RECURSIVE ExtractFrom(_, _, _)
\* extract_characters_from_script from panel i on; order[i] is the order in
\* which list(set(...)) yields the names of panel i
ExtractFrom(st, i, order) ==
    IF i > Len(st.panels) THEN st
    ELSE ExtractFrom(RegisterNames(st, i, order[i]), i + 1, order)

RECURSIVE SetOrders(_)
\* the iteration orders list(set(...)) can produce, panel by panel: the order
\* of a set of strings depends on the per-process hash seed
SetOrders(panels) ==
    IF panels = <<>> THEN {<<>>}
    ELSE {<<p>> \o r : p \in Perms(TitledNames(Head(panels).dialogue)),
                       r \in SetOrders(Tail(panels))}

extract_characters_from_script(scr, cache, order) ==
    ExtractFrom([panels |-> scr.panels, cache |-> cache, characters |-> scr.characters],
                1, order)

\* the inner loop without the break: every match is added
FirstNew_NoBreak(char_references, panel_number, reference_panels) ==
    SelectSeq(char_references,
              LAMBDA r : r < panel_number /\ ~Contains(reference_panels, r))

RECURSIVE FirstNew_NoBound(_, _, _)
\* the inner loop without the test ref_panel < panel.panel_number
FirstNew_NoBound(char_references, panel_number, reference_panels) ==
    IF char_references = <<>> THEN <<>>
    ELSE IF ~Contains(reference_panels, Head(char_references))
         THEN <<Head(char_references)>>
         ELSE FirstNew_NoBound(Tail(char_references), panel_number, reference_panels)

RECURSIVE FirstNew(_, _, _)
\* the inner loop of lines 118-121: the first reference of the character that
\* is below panel_number and not selected yet, as a list of 0 or 1 entries
FirstNew(char_references, panel_number, reference_panels) ==
    IF char_references = <<>> THEN <<>>
    ELSE IF Head(char_references) < panel_number
            /\ ~Contains(reference_panels, Head(char_references))
         THEN <<Head(char_references)>>
         ELSE FirstNew(Tail(char_references), panel_number, reference_panels)

RECURSIVE CharacterReferences(_, _, _, _)
\* Strategy 2 (lines 116-121): the selection after the loop over the
\* characters of the panel
CharacterReferences(names, panel_number, reference_panels, characters) ==
    IF names = <<>> THEN reference_panels
    ELSE CharacterReferences(Tail(names), panel_number,
            reference_panels \o FirstNew(
                get_character_reference_panels(characters, Head(names)),
                panel_number, reference_panels),
            characters)

\* Strategy 1 (lines 110-113)
SceneContinuity(panel_number) ==
    (IF panel_number > 1 THEN <<panel_number - 1>> ELSE <<>>)
    \o (IF panel_number > 2 THEN <<panel_number - 2>> ELSE <<>>)

\* cap of line 125
MaxReferencePanels == 4

\* the selection before the sort and the cap
SelectedBeforeCap(panel, characters) ==
    CharacterReferences(panel.characters_in_panel, panel.panel_number,
                        SceneContinuity(panel.panel_number), characters)

\* the sort without the slice [:4]
SortAndCap_NoCap(reference_panels) == ListSort(reference_panels)

\* reference_panels.sort(); return reference_panels[:4]
SortAndCap(reference_panels) ==
    SubSeq(ListSort(reference_panels), 1,
           IF Len(reference_panels) > MaxReferencePanels
           THEN MaxReferencePanels ELSE Len(reference_panels))

determine_reference_panels(panel, characters) ==
    SortAndCap(SelectedBeforeCap(panel, characters))

\* what each character of the panel added in Strategy 2, in loop order
RECURSIVE CharacterAdditions(_, _, _, _)
CharacterAdditions(names, panel_number, reference_panels, characters) ==
    IF names = <<>> THEN <<>>
    ELSE LET add == FirstNew(get_character_reference_panels(characters, Head(names)),
                             panel_number, reference_panels)
         IN <<add>> \o CharacterAdditions(Tail(names), panel_number,
                                          reference_panels \o add, characters)

----------------------------------------------------------------------------
(* Reference selection on parsed scripts: extract_characters_from_script    *)
(* followed by determine_reference_panels, on every script of up to         *)
(* MaxRefPanels panels and MaxLines dialogue lines.                         *)

RefTags == <<"Oga:", "Ila:", "Uma:">>

\* dialogue of a panel in which the speakers S talk
DialogueOf(S) ==
    LET tags == SelectSeq(RefTags, LAMBDA t : t \in S)
    IN [i \in 1..Len(tags) |-> <<tags[i], " ", "hi">>]

\* least element of a set of panel numbers, top when the set is empty
FirstOf(S, top) == IF S = {} THEN top ELSE Min(S)

\* who speaks where in a script of n panels with at most max_lines dialogue
\* lines: for each name of RefTags the set of panels it speaks in.  The three
\* names are interchangeable, so only the assignments that introduce them in
\* the order of RefTags are kept.
Appearances(n, max_lines) ==
    UNION {UNION {{<<A, B, C>> :
                C \in {C \in SUBSET (1..n) :
                        /\ Cardinality(A) + Cardinality(B) + Cardinality(C) <= max_lines
                        /\ FirstOf(B, n + 1) <= FirstOf(C, n + 1)}} :
            B \in {B \in SUBSET (1..n) :
                        /\ Cardinality(A) + Cardinality(B) <= max_lines
                        /\ FirstOf(A, n + 1) <= FirstOf(B, n + 1)}} :
        A \in {A \in SUBSET (1..n) : Cardinality(A) <= max_lines}}

\* the speakers of each panel
PlanOf(n, app) == [i \in 1..n |-> {RefTags[k] : k \in {k \in 1..3 : i \in app[k]}}]

\* the Script parse_script returns for such a text
RefScript(plan) ==
    [title |-> <<"Saga">>,
     panels |-> Renumber([i \in 1..Len(plan) |->
                    NewPanel(i, <<"cave">>, DialogueOf(plan[i]), <<>>)]),
     characters |-> <<>>]

RefScripts(max_panels, max_lines) ==
    UNION {{RefScript(PlanOf(n, app)) : app \in Appearances(n, max_lines)} : n \in 1..max_panels}

EmptyCache == [k \in {} |-> 0]
\* characters.json: absent; content json.load rejects; valid JSON that is
\* not an object (a list, a string); the object save_characters wrote
NoFile == <<>>
InvalidJson == <<"invalid_json">>
NotRegistry == <<"json_not_an_object">>
RegistryFile(data) == <<"json_object", data>>
NoResult == [before_cap |-> <<>>, added |-> <<>>, returned |-> <<>>, loaded |-> <<>>]
\* no function called on its own, no task submitted to the HTTP API
NoCall == [input |-> <<>>, result |-> <<>>]
NoTasks == <<>>
\* no backend request built yet
NoRequest == [context |-> <<>>, images |-> <<>>]
\* no backend call made yet
NoResponse == [raised |-> FALSE, parts |-> <<"none yet">>]

\* a manager with an empty cache and one of the given parsed scripts
ParsedState(scripts) ==
    /\ pc = "parsed"
    /\ script \in scripts
    /\ characters_cache = EmptyCache
    /\ script_text = <<>>
    /\ registry_file = NoFile
    /\ files = {}
    /\ image_paths = <<>>
    /\ idx = 0
    /\ progress = <<>>
    /\ trace = <<>>
    /\ outcome = <<>>
    /\ run = 0
    /\ ref_panel = 0
    /\ ref_result = NoResult
    /\ unreadable = {}
    /\ response = NoResponse
    /\ call = NoCall
    /\ tasks = NoTasks
    /\ request = NoRequest

InitRef == ParsedState(RefScripts(MaxRefPanels, MaxLines))

\* CharacterManagerService.extract_characters_from_script(script)
DoExtract(next_pc) ==
    \E order \in SetOrders(script.panels) :
        LET st == extract_characters_from_script(script, characters_cache, order)
        IN /\ script' = [script EXCEPT !.panels = st.panels, !.characters = st.characters]
           /\ characters_cache' = st.cache
           /\ pc' = next_pc

ExtractCharacters ==
    /\ pc = "parsed"
    /\ DoExtract("extracted")
    /\ UNCHANGED <<request, call, tasks, unreadable, response, script_text, registry_file, files, image_paths, idx, progress,
                   trace, outcome, run, ref_panel, ref_result>>

\* a second call of extract_characters_from_script on the same script
ReExtractCharacters ==
    /\ pc = "extracted"
    /\ DoExtract("re_extracted")
    /\ UNCHANGED <<request, call, tasks, unreadable, response, script_text, registry_file, files, image_paths, idx, progress,
                   trace, outcome, run, ref_panel, ref_result>>

\* CharacterManagerService.determine_reference_panels(panel, script)
DetermineReferencePanels ==
    /\ pc = "extracted"
    /\ \E n \in 1..Len(script.panels) :
        LET panel == script.panels[n]
        IN /\ ref_panel' = panel.panel_number
           /\ ref_result' =
                [before_cap |-> SelectedBeforeCap(panel, script.characters),
                 added |-> CharacterAdditions(panel.characters_in_panel, panel.panel_number,
                              SceneContinuity(panel.panel_number),
                              script.characters),
                 returned |-> determine_reference_panels(panel, script.characters),
                 loaded |-> <<>>]
    /\ pc' = "determined"
    /\ UNCHANGED <<request, call, tasks, unreadable, response, script_text, script, characters_cache, registry_file, files,
                   image_paths, idx, progress, trace, outcome, run>>

NextRef == ExtractCharacters \/ DetermineReferencePanels

SpecRef == InitRef /\ [][NextRef]_vars

\* extract_characters_from_script called twice on one script
InitExtract == ParsedState(RefScripts(MaxExtractPanels, MaxExtractLines))

NextExtract == ExtractCharacters \/ ReExtractCharacters

SpecExtract == InitExtract /\ [][NextExtract]_vars

----------------------------------------------------------------------------
(* generate_comic: script generation, parsing, character extraction,        *)
(* per-panel image generation, registry save and assembly; several runs of  *)
(* one process share the manager's cache, the registry file and the output  *)
(* directory.                                                               *)

RunHeaders == <<"PANEL 1:", "PANEL 2:", "PANEL 7:">>
RunBlockKinds == {"oga", "both", "noscene"}

\* one PANEL block of a backend script text
BlockText(kind, header) ==
    <<header, "\n">> \o
    (CASE kind = "oga" -> <<"SCENE:", " ", "old", " ", "cave", "\n",
                            "DIALOGUE:", " ", "Oga:", " ", "hi", "\n">>
       [] kind = "both" -> <<"SCENE:", " ", "fire", "\n",
                             "DIALOGUE:", " ", "oga:", " ", "hi", "\n", "Ila:", " ", "hi", "\n",
                             "NARRATION:", " ", "none", "\n">>
       [] kind = "noscene" -> <<"DIALOGUE:", " ", "Ila:", " ", "hi", "\n">>)

RECURSIVE BlocksText(_, _)
BlocksText(kinds, i) ==
    IF i > Len(kinds) THEN <<>>
    ELSE BlockText(kinds[i], RunHeaders[((i - 1) % Len(RunHeaders)) + 1]) \o BlocksText(kinds, i + 1)

\* the block kinds of a text, panel by panel: no two blocks in a row are of
\* the same kind
RunPlans ==
    {kinds \in UNION {[1..n -> RunBlockKinds] : n \in 0..MaxRunPanels} :
        \A i \in 1..(Len(kinds) - 1) : kinds[i] # kinds[i + 1]}

\* texts the script backend may answer with
BackendTexts ==
    {<<"TITLE:", " ", "Oga:", "\n">> \o BlocksText(kinds, 1) : kinds \in RunPlans}

\* outcomes of one image backend call and of saving its image
BackendResults == {"ok", "backend_error", "no_parts", "no_image"}

\* invalid_chars = '<>:"/\\|?*'
InvalidChars == {"<", ">", ":", "\"", "/", "\\", "|", "?", "*"}

\* characters str.split() splits at, among those used here
SpaceChars == {" ", "\t", "\n"}

\* filename[:50]
MaxFilenameLength == 50

\* for char in invalid_chars: filename = filename.replace(char, '_')
ReplaceInvalid(filename) ==
    [i \in 1..Len(filename) |-> IF filename[i] \in InvalidChars THEN "_" ELSE filename[i]]

RECURSIVE SplitWords(_)
\* filename.split(): the maximal runs of characters that are not whitespace
SplitWords(filename) ==
    IF filename = <<>> THEN <<>>
    ELSE IF Head(filename) \in SpaceChars THEN SplitWords(Tail(filename))
    ELSE LET stops == {i \in 1..Len(filename) : filename[i] \in SpaceChars}
             end == IF stops = {} THEN Len(filename) ELSE Min(stops) - 1
         IN <<SubSeq(filename, 1, end)>> \o SplitWords(SubSeq(filename, end + 1, Len(filename)))

RECURSIVE JoinWords(_)
\* '_'.join(words)
JoinWords(words) ==
    IF words = <<>> THEN <<>>
    ELSE IF Len(words) = 1 THEN words[1]
    ELSE words[1] \o <<"_">> \o JoinWords(Tail(words))

\* _sanitize_filename returning the joined name at its full length
ImageGenerator_sanitize_NoCut(filename) ==
    JoinWords(SplitWords(ReplaceInvalid(filename)))

\* ImageGeneratorService._sanitize_filename on characters
ImageGenerator_sanitize(filename) ==
    LET joined == JoinWords(SplitWords(ReplaceInvalid(filename)))
    IN IF Len(joined) > MaxFilenameLength THEN SubSeq(joined, 1, MaxFilenameLength) ELSE joined

\* PanelReferenceManager._sanitize_filename on characters
PanelReference_sanitize(filename) ==
    LET joined == JoinWords(SplitWords(ReplaceInvalid(filename)))
    IN IF Len(joined) > MaxFilenameLength THEN SubSeq(joined, 1, MaxFilenameLength) ELSE joined

\* the characters of a token of the text alphabet
Chars(t) ==
    CASE t = "PANEL 1:" -> <<"P", "A", "N", "E", "L", " ", "1", ":">>
      [] t = "PANEL 2:" -> <<"P", "A", "N", "E", "L", " ", "2", ":">>
      [] t = "PANEL 7:" -> <<"P", "A", "N", "E", "L", " ", "7", ":">>
      [] t = " " -> <<" ">>
      [] t = "\n" -> <<"\n">>
      [] t = "\t" -> <<"\t">>
      [] t = "SCENE:" -> <<"S", "C", "E", "N", "E", ":">>
      [] t = "DIALOGUE:" -> <<"D", "I", "A", "L", "O", "G", "U", "E", ":">>
      [] t = "NARRATION:" -> <<"N", "A", "R", "R", "A", "T", "I", "O", "N", ":">>
      [] t = "panel" -> <<"p", "a", "n", "e", "l">>
      [] t = "TITLE:" -> <<"T", "I", "T", "L", "E", ":">>
      [] t = "Title:" -> <<"T", "i", "t", "l", "e", ":">>
      [] t = "none" -> <<"n", "o", "n", "e">>
      [] t = "None" -> <<"N", "o", "n", "e">>
      [] t = "NONE" -> <<"N", "O", "N", "E">>
      [] t = "[none]" -> <<"[", "n", "o", "n", "e", "]">>
      [] t = "Oga:" -> <<"O", "g", "a", ":">>
      [] t = "oga:" -> <<"o", "g", "a", ":">>
      [] t = "OGA:" -> <<"O", "G", "A", ":">>
      [] t = "Ila:" -> <<"I", "l", "a", ":">>
      [] t = "Uma:" -> <<"U", "m", "a", ":">>
      [] t = "X:" -> <<"X", ":">>
      [] t = "cave" -> <<"c", "a", "v", "e">>
      [] t = "fire" -> <<"f", "i", "r", "e">>
      [] t = "hi" -> <<"h", "i">>
      [] t = "old" -> <<"o", "l", "d">>
      [] t = "Saga" -> <<"S", "a", "g", "a">>
      [] t = "Untitled Comic" -> <<"U", "n", "t", "i", "t", "l", "e", "d", " ", "C", "o", "m", "i", "c">>

RECURSIVE TextChars(_)
\* the characters of a text given as tokens
TextChars(text) ==
    IF text = <<>> THEN <<>> ELSE Chars(Head(text)) \o TextChars(Tail(text))

\* ImageGeneratorService._sanitize_filename on a title given as tokens
_sanitize_filename(title) == ImageGenerator_sanitize(TextChars(title))

\* os.path.join(output_dir, f"{safe_title}_panel_{panel_number:02d}.png")
PanelImagePath(title, panel_number) == <<_sanitize_filename(title), "panel", panel_number>>

\* PanelReferenceManager._sanitize_filename, the reference manager's own copy,
\* on a title given as tokens
PanelReferenceManager_sanitize_filename(title) == PanelReference_sanitize(TextChars(title))

\* the path rebuilt from the title as the script holds it
_get_panel_image_path_Raw(panel_number, comic_title) ==
    <<TextChars(comic_title), "panel", panel_number>>

\* PanelReferenceManager._get_panel_image_path: the path of an earlier panel's
\* image, rebuilt from the title and the panel number
_get_panel_image_path(panel_number, comic_title) ==
    <<PanelReferenceManager_sanitize_filename(comic_title), "panel", panel_number>>

\* get_reference_images opening whatever file exists
get_reference_images_AnyFile(reference_panels, comic_title, on_disk, cannot_open) ==
    SelectSeq(reference_panels,
              LAMBDA r : _get_panel_image_path(r, comic_title) \in on_disk)

\* PanelReferenceManager.get_reference_images: the images, named by their
\* panel numbers, of the reference panels whose file exists and which
\* PILImage.open accepts, in the order of reference_panels; the others are
\* skipped with a warning
get_reference_images(reference_panels, comic_title, on_disk, cannot_open) ==
    SelectSeq(reference_panels,
              LAMBDA r : LET image_path == _get_panel_image_path(r, comic_title)
                         IN image_path \in on_disk /\ image_path \notin cannot_open)

\* os.path.join(output_dir, f"{safe_title}_complete_comic.png")
ComicPath(title) == <<_sanitize_filename(title), "complete_comic">>

\* save_characters: the JSON object, keyed by character.name
RegistryOf(cache) ==
    [n \in {cache[k].name : k \in DOMAIN cache} |->
        LET k == CHOOSE k \in DOMAIN cache : cache[k].name = n IN cache[k]]

\* load_characters keying the cache by the name as written
load_characters_NameKeys(cache, file) ==
    IF file \in {NoFile, InvalidJson} THEN cache
    ELSE IF file = NotRegistry THEN EmptyCache
    ELSE file[2]

\* load_characters: a missing file returns at once (line 144); json.load
\* raising is caught before the cache is touched; after json.load succeeded
\* the cache is set to {} (line 150) and then filled from the values, keyed by
\* name.lower(), so JSON that is not an object leaves it empty.  Every
\* exception is caught (line 160): the call always returns.
load_characters(cache, file) ==
    IF file \in {NoFile, InvalidJson} THEN cache
    ELSE IF file = NotRegistry THEN EmptyCache
    ELSE LET data == file[2]
         IN [key \in {StrLower(n) : n \in DOMAIN data} |->
                LET n == CHOOSE n \in DOMAIN data : StrLower(n) = key IN data[n]]

\* _all_panels_have_images with any() in place of all()
_all_panels_have_images_Any(panels, disk) ==
    \E i \in 1..Len(panels) :
        panels[i].image_path # <<>> /\ panels[i].image_path[1] \in disk

\* ComicAssemblerService._all_panels_have_images
_all_panels_have_images(panels, disk) ==
    \A i \in 1..Len(panels) :
        panels[i].image_path # <<>> /\ panels[i].image_path[1] \in disk

\* a loop that stops at the first failed panel
AfterPanel_Abort(i, n, result) == IF result = "ok" THEN i + 1 ELSE n

\* a loop that steps over every second panel
AfterPanel_Skip(i, n, result) == i + 2

\* the loop of generate_all_panel_images goes on with the next panel after a
\* panel succeeded or failed: the count of attempted panels after panel i + 1
AfterPanel(i, n, result) == i + 1

\* the loop ending as soon as one panel was attempted
BatchDone_Early(i, n) == i >= 1 \/ i >= n

\* the for loop over script.panels is exhausted after n attempts; only then
\* does generate_all_panel_images go on to save_characters
BatchDone(i, n) == i >= n

Running == <<>>
Raised == <<"raise">>

Init ==
    /\ pc = "idle"
    /\ script_text = <<>>
    /\ script = NoScript
    /\ characters_cache = EmptyCache
    /\ registry_file = NoFile
    /\ files = {}
    /\ image_paths = <<>>
    /\ idx = 0
    /\ progress = <<>>
    /\ trace = <<>>
    /\ outcome = Running
    /\ run = 0
    /\ ref_panel = 0
    /\ ref_result = NoResult
    /\ unreadable = {}
    /\ response = NoResponse
    /\ call = NoCall
    /\ tasks = NoTasks
    /\ request = NoRequest

\* generate_comic, step 1: generate_script returns the stripped backend text
GenerateScript ==
    /\ pc \in {"idle", "done"}
    /\ run < MaxRuns
    /\ run' = run + 1
    /\ \E t \in BackendTexts : script_text' = Strip(t)
    /\ script' = NoScript
    /\ image_paths' = <<>>
    /\ idx' = 0
    /\ progress' = <<>>
    /\ trace' = <<[stage |-> "script", n |-> 0, result |-> "ok"]>>
    /\ outcome' = Running
    /\ pc' = "script_generated"
    /\ ref_panel' = 0
    /\ ref_result' = NoResult
    /\ request' = NoRequest
    /\ UNCHANGED <<call, tasks, unreadable, response, characters_cache, registry_file, files>>

\* generate_comic, step 1 failing: generate_script raises RuntimeError
GenerateScriptFails ==
    /\ pc \in {"idle", "done"}
    /\ run < MaxRuns
    /\ run' = run + 1
    /\ script_text' = <<>>
    /\ script' = NoScript
    /\ image_paths' = <<>>
    /\ idx' = 0
    /\ progress' = <<>>
    /\ trace' = <<[stage |-> "script", n |-> 0, result |-> "backend_error"]>>
    /\ outcome' = Raised
    /\ pc' = "done"
    /\ ref_panel' = 0
    /\ ref_result' = NoResult
    /\ request' = NoRequest
    /\ UNCHANGED <<call, tasks, unreadable, response, characters_cache, registry_file, files>>

\* generate_comic, step 2: parse_script
ParseScript ==
    /\ pc = "script_generated"
    /\ script' = parse_script(script_text)
    /\ trace' = Append(trace, [stage |-> "parse", n |-> 0, result |-> "ok"])
    /\ pc' = "parsed"
    /\ UNCHANGED <<request, call, tasks, unreadable, response, script_text, characters_cache, registry_file, files, image_paths,
                   idx, progress, outcome, run, ref_panel, ref_result>>

\* generate_all_panel_images, lines 160-167: load_characters, then
\* extract_characters_from_script
LoadAndExtract ==
    /\ pc = "parsed"
    /\ \E order \in SetOrders(script.panels) :
        LET st == extract_characters_from_script(script,
                      load_characters(characters_cache, registry_file), order)
        IN /\ script' = [script EXCEPT !.panels = st.panels, !.characters = st.characters]
           /\ characters_cache' = st.cache
    /\ progress' = Append(progress, <<"extracting">>)
    /\ trace' = trace \o <<[stage |-> "load", n |-> 0, result |-> "ok"],
                            [stage |-> "extract", n |-> 0, result |-> "ok"]>>
    /\ image_paths' = <<>>
    /\ idx' = 0
    /\ pc' = "images"
    /\ UNCHANGED <<request, call, tasks, unreadable, response, script_text, registry_file, files, outcome, run, ref_panel, ref_result>>

\* a backend response without image part is reported as a success
_save_image_from_response_Silent(parts) == "ok"

\* _save_image_from_response: "ok" when a part of the response yields an
\* image, which is then written to filepath; otherwise the ValueError raised
_save_image_from_response(parts) ==
    IF parts = <<>> THEN "no_parts"
    ELSE IF \E k \in 1..Len(parts) : parts[k] = "image" THEN "ok"
    ELSE "no_image"

\* the pieces of a prompt: fixed text, or a panel number as str() prints it
Text(t) == [text |-> t]
Number(n) == [panel |-> n]

RECURSIVE JoinNumbers(_)
\* ", ".join([str(p) for p in panels])
JoinNumbers(panels) ==
    IF panels = <<>> THEN <<>>
    ELSE IF Len(panels) = 1 THEN <<Number(panels[1])>>
    ELSE <<Number(panels[1]), Text(", ")>> \o JoinNumbers(Tail(panels))

ContextSuffix == Text(" to maintain visual consistency for characters and style.")

\* create_reference_context_prompt joining every number with commas
create_reference_context_prompt_Commas(reference_panels) ==
    IF reference_panels = <<>> THEN <<>>
    ELSE IF Len(reference_panels) = 1
    THEN <<Text("Use the reference image from panel "), Number(reference_panels[1]), ContextSuffix>>
    ELSE <<Text("Use the reference images from panels ")>>
         \o JoinNumbers(reference_panels) \o <<ContextSuffix>>

\* PanelReferenceManager.create_reference_context_prompt
create_reference_context_prompt(reference_panels) ==
    IF reference_panels = <<>> THEN <<>>
    ELSE IF Len(reference_panels) = 1
    THEN <<Text("Use the reference image from panel "), Number(reference_panels[1]), ContextSuffix>>
    ELSE <<Text("Use the reference images from panels ")>>
         \o JoinNumbers(SubSeq(reference_panels, 1, Len(reference_panels) - 1))
         \o <<Text(" and "), Number(reference_panels[Len(reference_panels)]), ContextSuffix>>

\* generate_panel_image(panel i) and the handling of its outcome in the loop
\* of generate_all_panel_images.  result is "ok" when the backend call and
\* _save_image_from_response went through; anything else is the exception
\* generate_panel_image re-raises as RuntimeError and the loop reports.  The
\* reference panels are determined and recorded before the backend is called.
\* generate_panel_image, lines 83-97: the reference context put before the
\* prompt when reference images were loaded, and the images attached
BackendRequest(reference_panels, reference_images) ==
    [context |-> IF reference_images # <<>>
                 THEN create_reference_context_prompt(reference_panels)
                 ELSE <<>>,
     images |-> reference_images]

PanelIteration(i, result) ==
    LET panel == script.panels[i]
        refs == determine_reference_panels(panel, script.characters)
        filepath == PanelImagePath(script.title, panel.panel_number)
    IN /\ ref_panel' = panel.panel_number
       /\ ref_result' = [before_cap |-> SelectedBeforeCap(panel, script.characters),
                         added |-> CharacterAdditions(panel.characters_in_panel,
                                      panel.panel_number, SceneContinuity(panel.panel_number),
                                      script.characters),
                         returned |-> refs,
                         loaded |-> get_reference_images(refs, script.title, files, unreadable)]
       /\ request' = BackendRequest(refs, get_reference_images(refs, script.title, files, unreadable))
       /\ trace' = Append(trace, [stage |-> "panel", n |-> panel.panel_number, result |-> result])
       /\ idx' = AfterPanel(i - 1, Len(script.panels), result)
       /\ IF result = "ok"
          THEN /\ script' = [script EXCEPT !.panels[i].reference_panels = refs,
                                           !.panels[i].image_path = <<filepath>>]
               /\ files' = files \cup {filepath}
               /\ unreadable' = unreadable \ {filepath}
               /\ image_paths' = Append(image_paths, filepath)
               /\ progress' = progress \o <<<<"generating", panel.panel_number>>,
                                            <<"saved", panel.panel_number, filepath>>>>
          ELSE /\ script' = [script EXCEPT !.panels[i].reference_panels = refs]
               /\ files' = files
               /\ unreadable' = unreadable
               /\ image_paths' = image_paths
               /\ progress' = progress \o <<<<"generating", panel.panel_number>>,
                                            <<"failed", panel.panel_number, result>>>>

\* one iteration of the loop of generate_all_panel_images: generate_panel_image
\* for panel idx + 1 and the handling of its result
GeneratePanelImage ==
    /\ pc = "images"
    /\ ~BatchDone(idx, Len(script.panels))
    /\ \E result \in BackendResults : PanelIteration(idx + 1, result)
    /\ UNCHANGED <<call, tasks, response, pc, script_text, characters_cache, registry_file, outcome, run>>

\* generate_all_panel_images, lines 187-190: save_characters and return
SaveCharacters ==
    /\ pc = "images"
    /\ BatchDone(idx, Len(script.panels))
    /\ registry_file' = RegistryFile(RegistryOf(characters_cache))
    /\ trace' = Append(trace, [stage |-> "save", n |-> 0, result |-> "ok"])
    /\ pc' = "assemble"
    /\ UNCHANGED <<request, call, tasks, unreadable, response, script_text, script, characters_cache, files, image_paths, idx,
                   progress, outcome, run, ref_panel, ref_result>>

\* generate_comic, step 4: assemble_comic.  With no panel at all the layout
\* code takes max() of an empty list and raises.
AssembleComic ==
    /\ pc = "assemble"
    /\ IF _all_panels_have_images(script.panels, files) /\ Len(script.panels) > 0
       THEN /\ outcome' = <<"ok", ComicPath(script.title)>>
            /\ files' = files \cup {ComicPath(script.title)}
            /\ trace' = Append(trace, [stage |-> "assemble", n |-> 0, result |-> "ok"])
       ELSE /\ outcome' = Raised
            /\ files' = files
            /\ trace' = Append(trace, [stage |-> "assemble", n |-> 0, result |-> "raise"])
    /\ pc' = "done"
    /\ UNCHANGED <<request, call, tasks, unreadable, response, script_text, script, characters_cache, registry_file, image_paths,
                   idx, progress, run, ref_panel, ref_result>>

Next ==
    \/ GenerateScript
    \/ GenerateScriptFails
    \/ ParseScript
    \/ LoadAndExtract
    \/ GeneratePanelImage
    \/ SaveCharacters
    \/ AssembleComic

Spec == Init /\ [][Next]_vars

----------------------------------------------------------------------------
(* load_characters on a manager whose cache was filled by an extraction,    *)
(* with the registry file in each condition the file system can present     *)

\* a registry an earlier process saved: one character, seen in panel 2
SavedRegistry ==
    [n \in {"Oga"} |-> [NewCharacter("Oga", <<"cave">>) EXCEPT
                            !.reference_panels = <<2>>,
                            !.first_appearance_panel = 2]]

RegistryFiles == {NoFile, InvalidJson, NotRegistry, RegistryFile(SavedRegistry)}

InitLoad ==
    /\ pc = "parsed"
    /\ script \in RefScripts(MaxExtractPanels, MaxExtractLines)
    /\ characters_cache = EmptyCache
    /\ script_text = <<>>
    /\ registry_file \in RegistryFiles
    /\ files = {}
    /\ image_paths = <<>>
    /\ idx = 0
    /\ progress = <<>>
    /\ trace = <<>>
    /\ outcome = <<>>
    /\ run = 0
    /\ ref_panel = 0
    /\ ref_result = NoResult
    /\ unreadable = {}
    /\ response = NoResponse
    /\ call = NoCall
    /\ tasks = NoTasks
    /\ request = NoRequest

\* CharacterManagerService.load_characters(): it returns None on every path
LoadCharacters ==
    /\ pc = "extracted"
    /\ characters_cache' = load_characters(characters_cache, registry_file)
    /\ outcome' = <<"returned">>
    /\ pc' = "loaded"
    /\ UNCHANGED <<request, call, tasks, unreadable, response, script_text, script, registry_file, files, image_paths,
                   idx, progress, trace, run, ref_panel, ref_result>>

NextLoad == ExtractCharacters \/ LoadCharacters

SpecLoad == InitLoad /\ [][NextLoad]_vars

----------------------------------------------------------------------------
(* generate_panel_image for any one panel of an extracted script, with the  *)
(* images of earlier panels present, missing or damaged in the output       *)
(* directory and with every shape of backend response                       *)

MaxImagePanels == 3
MaxImageLines == 2

\* what a generate_content call can give: an exception, or a response whose
\* parts are text or image parts
Responses ==
    {[raised |-> TRUE, parts |-> <<>>]} \cup
    {[raised |-> FALSE, parts |-> p] :
        p \in {<<>>, <<"text">>, <<"image">>, <<"text", "image">>, <<"text", "text">>}}

\* the outcome of generate_panel_image on a backend response
ResponseResult(resp) ==
    IF resp.raised THEN "backend_error" ELSE _save_image_from_response(resp.parts)

\* the panel image files an earlier generation of the same title can have
\* left in the output directory
EarlierImages == {PanelImagePath(<<"Saga">>, p) : p \in 1..(MaxImagePanels - 1)}

InitImages ==
    /\ pc = "parsed"
    /\ script \in RefScripts(MaxImagePanels, MaxImageLines)
    /\ characters_cache = EmptyCache
    /\ script_text = <<>>
    /\ registry_file = NoFile
    /\ files \in SUBSET EarlierImages
    /\ unreadable \in SUBSET files
    /\ image_paths = <<>>
    /\ idx = 0
    /\ progress = <<>>
    /\ trace = <<>>
    /\ outcome = <<>>
    /\ run = 0
    /\ ref_panel = 0
    /\ ref_result = NoResult
    /\ response = NoResponse
    /\ call = NoCall
    /\ tasks = NoTasks
    /\ request = NoRequest

\* generate_panel_image(panel, script) called from the loop of
\* generate_all_panel_images, for any panel and any backend response
GenerateFromResponse ==
    /\ pc = "extracted"
    /\ \E i \in 1..Len(script.panels), resp \in Responses :
        /\ response' = resp
        /\ PanelIteration(i, ResponseResult(resp))
    /\ pc' = "generated"
    /\ UNCHANGED <<call, tasks, script_text, characters_cache, registry_file, outcome, run>>

NextImages == ExtractCharacters \/ GenerateFromResponse

SpecImages == InitImages /\ [][NextImages]_vars

----------------------------------------------------------------------------
(* parse_script on script texts of up to MaxBlocks PANEL blocks *)

ParseHeaders == {"PANEL 2:", "PANEL 7:"}

\* bodies of a PANEL block: with scene text, with all three sections, without
\* a SCENE: header, with a SCENE: header directly followed by the next
\* section, with a SCENE: header and blanks only, with the word "panel" in
\* the scene text
ParseBodies ==
    {<<"\n", "SCENE:", " ", "cave", "\n">>,
     <<"\n", "SCENE:", " ", "old", " ", "cave", "\n", "DIALOGUE:", " ", "Oga:", " ", "hi", "\n",
       "NARRATION:", " ", "fire", "\n">>,
     <<"\n", "DIALOGUE:", " ", "Oga:", " ", "hi", "\n">>,
     <<"\n", "SCENE:", "\n", "DIALOGUE:", " ", "Oga:", " ", "hi", "\n">>,
     <<"\n", "SCENE:", " ", "\n">>,
     <<"\n", "SCENE:", " ", "cave", " ", "panel", " ", "fire", "\n">>}

ParsePreambles == {<<>>, <<"TITLE:", " ", "Saga", "\n">>}

RECURSIVE BlockSeqs(_)
\* the texts made of exactly n blocks
BlockSeqs(n) ==
    IF n = 0 THEN {<<>>}
    ELSE {<<h>> \o b \o r : h \in ParseHeaders, b \in ParseBodies, r \in BlockSeqs(n - 1)}

ParseTexts(max_blocks) ==
    {pre \o t : pre \in ParsePreambles, t \in UNION {BlockSeqs(n) : n \in 0..max_blocks}}

\* lines a DIALOGUE: section may hold
SectionLineKinds ==
    {<<"Oga:", " ", "hi">>, <<"hi", " ", "cave">>, <<"[none]">>,
     <<"none">>, <<"None">>, <<"NONE">>}

RECURSIVE LineSeqs(_)
\* the sections of exactly n lines, each line ended by a newline
LineSeqs(n) ==
    IF n = 0 THEN {<<>>}
    ELSE {l \o <<"\n">> \o r : l \in SectionLineKinds, r \in LineSeqs(n - 1)}

\* no DIALOGUE: section, an empty one, or one of up to max_lines lines
DialogueParts(max_lines) ==
    {<<>>, <<"DIALOGUE:", "\n">>}
    \cup {<<"DIALOGUE:", " ">> \o ls : ls \in UNION {LineSeqs(n) : n \in 1..max_lines}}

NarrationParts ==
    {<<>>, <<"NARRATION:", "\n">>, <<"NARRATION:", " ", "fire", "\n">>,
     <<"NARRATION:", " ", "none", "\n">>}

\* what stands before the first PANEL header: nothing, a title line, a title
\* line in another letter case with a colon in the title, a TITLE: keyword
\* without text, a first line without keyword
TitleParts ==
    {<<>>, <<"TITLE:", " ", "Saga", "\n">>, <<"Title:", " ", "Oga:", " ", "Saga", "\n">>,
     <<"TITLE:", "\n">>, <<"Saga", " ", "fire", "\n">>}

\* texts of one PANEL block with scene text, as generate_script returns them
\* (stripped), the DIALOGUE: and NARRATION: sections in either order
SectionTexts(max_lines) ==
    {Strip(t \o <<"PANEL 1:", "\n", "SCENE:", " ", "cave", "\n">> \o b) :
        t \in TitleParts,
        b \in UNION {{d \o n, n \o d} : d \in DialogueParts(max_lines), n \in NarrationParts}}

InitParse ==
    /\ pc = "script_generated"
    /\ script_text \in ParseTexts(MaxBlocks) \cup SectionTexts(MaxSectionLines)
    /\ script = NoScript
    /\ characters_cache = EmptyCache
    /\ registry_file = NoFile
    /\ files = {}
    /\ image_paths = <<>>
    /\ idx = 0
    /\ progress = <<>>
    /\ trace = <<>>
    /\ outcome = Running
    /\ run = 0
    /\ ref_panel = 0
    /\ ref_result = NoResult
    /\ unreadable = {}
    /\ response = NoResponse
    /\ call = NoCall
    /\ tasks = NoTasks
    /\ request = NoRequest

NextParse == ParseScript

SpecParse == InitParse /\ [][NextParse]_vars

----------------------------------------------------------------------------
(* Properties *)

IsPrefix(a, b) == Len(a) <= Len(b) /\ SubSeq(b, 1, Len(a)) = a

\* the text of the block of the header at position h, up to the next header
BlockBody(text, h) == SubSeq(text, h + 1, FirstAt(text, PanelHeaders, h + 1) - 1)

\* the scene text of a block as the script format defines it: what stands
\* between the first SCENE: and the next section keyword, blanks removed
SceneTextOf(body) ==
    LET s == FirstAt(body, SceneKw, 1)
    IN IF s > Len(body) THEN <<>>
       ELSE Strip(SubSeq(body, s + 1,
                         FirstAt(body, DialogueKw \cup NarrationKw, s + 1) - 1))

BlocksWithScene(text) ==
    {h \in HeaderPositions(text) : SceneTextOf(BlockBody(text, h)) # <<>>}

\* the literal numbers of the headers, in textual order
RECURSIVE LiteralNumbers(_, _)
LiteralNumbers(text, hs) ==
    IF hs = {} THEN <<>>
    ELSE <<HeaderNumber(text[Min(hs)])>> \o LiteralNumbers(text, hs \ {Min(hs)})

\* C1: for panel n >= 2 the list returned by determine_reference_panels
\* contains n-1, and for n >= 3 also n-2, whatever the characters added.
C1_SceneContinuityKept ==
    pc = "determined" =>
        /\ ref_panel >= 2 => Contains(ref_result.returned, ref_panel - 1)
        /\ ref_panel >= 3 => Contains(ref_result.returned, ref_panel - 2)

\* C2: a text whose N PANEL blocks all have scene text parses to exactly N
\* panels numbered 1..N, panel i being the i-th block of the text, whatever
\* the literal numbers of the headers are.
C2_DenseNumbering ==
    (pc = "parsed" /\ BlocksWithScene(script_text) = HeaderPositions(script_text)) =>
        /\ Len(script.panels) = Cardinality(HeaderPositions(script_text))
        /\ \A i \in 1..Len(script.panels) : script.panels[i].panel_number = i
        /\ [i \in 1..Len(script.panels) |-> script.panels[i].image_prompt.number]
              = LiteralNumbers(script_text, HeaderPositions(script_text))

\* C2 witness: two or more well-formed blocks whose literal numbers repeat or
\* descend have been parsed
C2_Witness ==
    /\ pc = "parsed"
    /\ BlocksWithScene(script_text) = HeaderPositions(script_text)
    /\ Len(script.panels) >= 2
    /\ script.panels[1].image_prompt.number >= script.panels[2].image_prompt.number

\* C3: the list returned by determine_reference_panels has at most 4 entries
\* and is sorted ascending.
C3_CappedAndSorted ==
    pc = "determined" =>
        /\ Len(ref_result.returned) <= 4
        /\ \A i, j \in 1..Len(ref_result.returned) :
              i < j => ref_result.returned[i] <= ref_result.returned[j]

\* C3 witness: a call in which more than 4 panels were selected before the cap
C3_Witness == pc = "determined" /\ Len(ref_result.before_cap) > 4

\* C4: every entry of every Panel.reference_panels and of every result of
\* determine_reference_panels is below the panel's number, and the result
\* for panel 1 is empty, in every run of the process.
C4_ReferencesBelowPanel ==
    /\ \A i \in 1..Len(script.panels) :
          \A r \in Range(script.panels[i].reference_panels) :
              r < script.panels[i].panel_number
    /\ \A r \in Range(ref_result.returned) : r < ref_panel
    /\ ref_panel = 1 => ref_result.returned = <<>>

\* C4 witness: in a later run panel 1 has been processed while one of its
\* characters carries a first appearance from an earlier run
C4_Witness ==
    /\ run >= 2
    /\ pc = "images"
    /\ idx >= 1
    /\ ref_panel = 1
    /\ \E i \in 1..Len(script.panels[1].characters_in_panel) :
          characters_cache[StrLower(script.panels[1].characters_in_panel[i])]
              .first_appearance_panel > 1

\* the panels selected before character k of the panel takes its turn
SelectedBefore(k) ==
    LET base == SceneContinuity(ref_panel)
        Flat[j \in 0..(k - 1)] ==
            IF j = 0 THEN base ELSE Flat[j - 1] \o ref_result.added[j]
    IN Flat[k - 1]

CharacterOfTurn(k) ==
    characters_cache[StrLower(script.panels[ref_panel].characters_in_panel[k])]

\* C5 as stated: a character with a recorded appearance below n that is not
\* selected yet adds exactly one panel, the first such recorded panel; any
\* other character adds nothing.
C5_FirstRecordedAdded ==
    pc = "determined" =>
        \A k \in 1..Len(script.panels[ref_panel].characters_in_panel) :
            LET open == SelectSeq(CharacterOfTurn(k).reference_panels,
                            LAMBDA p : p < ref_panel /\ ~Contains(SelectedBefore(k), p))
            IN ref_result.added[k] = IF open = <<>> THEN <<>> ELSE <<open[1]>>

\* C5 amended: each character adds at most one panel, the smallest entry of
\* its get_reference_panels() list (first appearance and the two highest
\* other recorded panels) that is below n and not selected yet; nothing when
\* that list has no such entry.
C5_FirstRelevantAdded ==
    pc = "determined" =>
        /\ Len(ref_result.added) = Len(script.panels[ref_panel].characters_in_panel)
        /\ \A k \in 1..Len(script.panels[ref_panel].characters_in_panel) :
            LET open == {p \in Range(get_reference_panels(CharacterOfTurn(k), DefaultMaxReferences)) :
                            p < ref_panel /\ p \notin Range(SelectedBefore(k))}
            IN ref_result.added[k] = IF open = {} THEN <<>> ELSE <<Min(open)>>
        /\ ref_result.before_cap =
              SelectedBefore(Len(script.panels[ref_panel].characters_in_panel) + 1)

\* C5 witness: in one call a character added a panel and another character
\* added nothing although one of its recorded panels below n was not selected
C5_Witness ==
    /\ pc = "determined"
    /\ \E k \in 1..Len(ref_result.added) : ref_result.added[k] # <<>>
    /\ \E k \in 1..Len(ref_result.added) :
          /\ ref_result.added[k] = <<>>
          /\ \E p \in Range(CharacterOfTurn(k).reference_panels) :
                p < ref_panel /\ ~Contains(SelectedBefore(k), p)

\* C6: a second extract_characters_from_script on the same script changes
\* neither the panels' characters_in_panel, nor any Character, nor the
\* script's character list.
C6_ExtractIdempotent ==
    [][(pc = "extracted" /\ pc' = "re_extracted") =>
          (script' = script /\ characters_cache' = characters_cache)]_vars

\* C6 witness: the second extraction ran on a script with a character that
\* speaks in several panels
C6_Witness ==
    /\ pc = "re_extracted"
    /\ \E k \in DOMAIN characters_cache : Len(characters_cache[k].reference_panels) >= 2

\* C7: assemble_comic gives an output path only when every panel has an
\* image; when a panel lacks one, generate_comic raises, returns no path and
\* writes no comic file.
C7_AllOrNothing ==
    [][(pc = "assemble" /\ pc' = "done") =>
          /\ outcome' # Raised =>
                /\ \A i \in 1..Len(script.panels) : script.panels[i].image_path # <<>>
                /\ outcome' = <<"ok", ComicPath(script.title)>>
          /\ (\E i \in 1..Len(script.panels) : script.panels[i].image_path = <<>>) =>
                (outcome' = Raised /\ files' = files)]_vars

\* C7 witness: a run ended in failure with some panels generated and some not
C7_Witness ==
    /\ pc = "done"
    /\ outcome = Raised
    /\ \E i \in 1..Len(script.panels) : script.panels[i].image_path # <<>>
    /\ \E i \in 1..Len(script.panels) : script.panels[i].image_path = <<>>

\* the per-panel attempts of the current run
Attempts == SelectSeq(trace, LAMBDA e : e.stage = "panel")

\* C8: when generate_all_panel_images returns, every panel was attempted,
\* also those after a failed one; every failure was reported through the
\* callback and left the panel without image; the returned list holds the
\* paths of the panels that succeeded, in panel order.
C8_FailureDoesNotAbort ==
    pc = "assemble" =>
        /\ Len(Attempts) = Len(script.panels)
        /\ \A i \in 1..Len(Attempts) :
              /\ Attempts[i].n = i
              /\ Attempts[i].result # "ok" =>
                    /\ Contains(progress, <<"failed", i, Attempts[i].result>>)
                    /\ script.panels[i].image_path = <<>>
        /\ image_paths =
              LET ok == SelectSeq(Attempts, LAMBDA e : e.result = "ok")
              IN [j \in 1..Len(ok) |-> PanelImagePath(script.title, ok[j].n)]

\* C8 witness: the batch returned after panel 1 failed and panel 2 succeeded
C8_Witness ==
    /\ pc = "assemble"
    /\ Len(Attempts) >= 2
    /\ Attempts[1].result # "ok"
    /\ Attempts[2].result = "ok"

\* the stages of a run over n panels
ExpectedStages(n) ==
    <<<<"script", 0>>, <<"parse", 0>>, <<"load", 0>>, <<"extract", 0>>>>
    \o [i \in 1..n |-> <<"panel", i>>]
    \o <<<<"save", 0>>, <<"assemble", 0>>>>

StagesDone == [i \in 1..Len(trace) |-> <<trace[i].stage, trace[i].n>>]

\* C9: the stages of generate_comic run in the order script generation,
\* parsing, character extraction, panels 1..N each once and in increasing
\* order, assembly; assembly starts only after every panel was attempted and
\* a successful run went through every stage.
C9_StagesInOrder ==
    /\ IsPrefix(StagesDone, ExpectedStages(Len(script.panels)))
    /\ pc = "assemble" => Len(Attempts) = Len(script.panels)
    /\ (pc = "done" /\ outcome # Raised) =>
          StagesDone = ExpectedStages(Len(script.panels))

\* C9 witness: a run over two panels ended with an assembled comic
C9_Witness ==
    /\ pc = "done"
    /\ outcome # Raised
    /\ Len(script.panels) >= 2

\* C10: the parsed Script has exactly as many panels as there are blocks with
\* scene text; a block without scene text, with or without a SCENE: header,
\* yields no panel.
C10_NoSceneDropped ==
    pc = "parsed" =>
        Len(script.panels) = Cardinality(BlocksWithScene(script_text))

\* the section keywords of the script format
SectionKeywords == SceneKw \cup DialogueKw \cup NarrationKw

\* position of the i-th PANEL header of a text
NthHeader(text, i) ==
    CHOOSE h \in HeaderPositions(text) :
        Cardinality({g \in HeaderPositions(text) : g <= h}) = i

\* the text of a section as the script format defines it: what stands
\* between the first keyword kw of a block and the next section keyword or
\* the end of the block, blanks removed
SectionTextOf(body, kw) ==
    LET s == FirstAt(body, kw, 1)
    IN IF s > Len(body) THEN <<>>
       ELSE Strip(SubSeq(body, s + 1, FirstAt(body, SectionKeywords, s + 1) - 1))

\* every PANEL block of the text gave a panel, so panel i is block i
PanelsAreBlocks ==
    pc = "parsed" /\ Len(script.panels) = Cardinality(HeaderPositions(script_text))

BlockOfPanel(i) == BlockBody(script_text, NthHeader(script_text, i))

\* C11: each section of a panel block ends at the next section keyword: no
\* dialogue line holds a section keyword, a block with an empty DIALOGUE:
\* section has dialogue = [], and the narration is None or the text of the
\* NARRATION: section.
C11_SectionsDelimited ==
    PanelsAreBlocks =>
        \A i \in 1..Len(script.panels) :
            LET p == script.panels[i]
                body == BlockOfPanel(i)
            IN /\ \A l \in 1..Len(p.dialogue) :
                      \A t \in Range(p.dialogue[l]) : t \notin SectionKeywords
               /\ SectionTextOf(body, DialogueKw) = <<>> => p.dialogue = <<>>
               /\ p.narration \in {<<>>, SectionTextOf(body, NarrationKw)}

\* C12: a panel whose DIALOGUE: section contains a line that is the text
\* "none" (any letter case, with or without brackets) has an empty dialogue
\* list.
C12_NoneLineEmptiesDialogue ==
    PanelsAreBlocks =>
        \A i \in 1..Len(script.panels) :
            LET lines == SplitLines(SectionTextOf(BlockOfPanel(i), DialogueKw))
            IN (\E l \in 1..Len(lines) : Len(lines[l]) = 1 /\ lines[l][1] \in NoneTokens)
                   => script.panels[i].dialogue = <<>>

\* the title as the three-step fallback defines it: the text of the first
\* line "TITLE: <text>", else the first non-empty line unless it starts
\* with a PANEL header, else the placeholder
ExpectedTitle(text) ==
    LET lines == SplitLines(text)
        tl == {i \in 1..Len(lines) : lines[i][1] \in TitleKw /\ Len(lines[i]) >= 2}
    IN IF tl # {} THEN Strip(Tail(lines[Min(tl)]))
       ELSE IF lines # <<>> /\ lines[1][1] \notin PanelHeaders THEN lines[1]
       ELSE UntitledComic

\* C13: the title of the parsed Script is the one the three-step fallback
\* gives for the script text.
C13_TitleFallback ==
    pc = "parsed" => script.title = ExpectedTitle(script_text)


----------------------------------------------------------------------------
(* Character and registry properties *)

NoDuplicates(s) == \A i, j \in 1..Len(s) : s[i] = s[j] => i = j

\* C14: a character's first_appearance_panel, once set, never changes, and
\* whenever it is set it is one of the character's reference_panels
C14_FirstAppearanceStable ==
    /\ [](\A k \in DOMAIN characters_cache :
            characters_cache[k].first_appearance_panel # NoPanel
            => Contains(characters_cache[k].reference_panels,
                        characters_cache[k].first_appearance_panel))
    /\ [][\A k \in DOMAIN characters_cache \cap DOMAIN characters_cache' :
            characters_cache[k].first_appearance_panel # NoPanel
            => characters_cache'[k].first_appearance_panel
                   = characters_cache[k].first_appearance_panel]_vars

\* a character first seen in panel 2 of one script appeared again in panel 1
\* of a later one
C14_Witness ==
    \E k \in DOMAIN characters_cache :
        /\ characters_cache[k].first_appearance_panel = 2
        /\ characters_cache[k].reference_panels = <<2, 1>>

\* C15: every step leaves each cached character in the cache and leaves its
\* reference_panels as they were or extends them at the end with panel
\* numbers they did not hold; the list never holds a number twice
C15_ReferencePanelsAppendOnly ==
    [][\A k \in DOMAIN characters_cache :
        /\ k \in DOMAIN characters_cache'
        /\ IsPrefix(characters_cache[k].reference_panels,
                    characters_cache'[k].reference_panels)
        /\ NoDuplicates(characters_cache'[k].reference_panels)]_vars

\* a later run of the process extended the list the registry holds for a
\* character
C15_Witness ==
    /\ pc = "images"
    /\ registry_file # NoFile
    /\ \E k \in DOMAIN characters_cache :
        LET name == characters_cache[k].name
        IN /\ name \in DOMAIN registry_file[2]
           /\ Len(registry_file[2][name].reference_panels)
                  < Len(characters_cache[k].reference_panels)

\* C16 as stated: after load_characters ran on a missing file or on one that
\* does not hold a registry, the cache is empty
C16_FailedLoadEmptiesCache ==
    (pc = "loaded" /\ registry_file \in {NoFile, InvalidJson, NotRegistry})
        => characters_cache = EmptyCache

\* C16: load_characters always returns; a missing file or one json.load
\* rejects leaves the cache as it was, JSON that parses but is not a registry
\* object leaves it empty, and a registry replaces it by the saved characters
C16_LoadOutcome ==
    [][pc = "extracted" /\ pc' = "loaded" =>
        /\ outcome' = <<"returned">>
        /\ registry_file \in {NoFile, InvalidJson} => characters_cache' = characters_cache
        /\ registry_file = NotRegistry => characters_cache' = EmptyCache
        /\ registry_file = RegistryFile(SavedRegistry) =>
               /\ DOMAIN characters_cache' = {"oga"}
               /\ characters_cache'["oga"] = SavedRegistry["Oga"]]_vars

\* a cache holding characters went through a load from a missing file and
\* still holds them
C16_Witness ==
    /\ pc = "loaded"
    /\ registry_file = NoFile
    /\ characters_cache # EmptyCache

----------------------------------------------------------------------------
(* registry accesses of generate_all_panel_images *)

PositionsOf(stage) == {i \in 1..Len(trace) : trace[i].stage = stage}

\* C17: in one run of generate_all_panel_images load_characters is called
\* exactly once, before the extraction, and save_characters exactly once,
\* after every panel was attempted, whether or not panels failed; until the
\* last attempt nothing is saved
C17_RegistryOncePerRun ==
    /\ pc \in {"images", "assemble"} =>
          /\ Cardinality(PositionsOf("load")) = 1
          /\ Cardinality(PositionsOf("extract")) = 1
          /\ \A l \in PositionsOf("load"), e \in PositionsOf("extract") : l < e
          /\ \A l \in PositionsOf("load"), p \in PositionsOf("panel") : l < p
    /\ pc = "images" => PositionsOf("save") = {}
    /\ pc = "assemble" =>
          /\ Cardinality(PositionsOf("save")) = 1
          /\ \A i \in 1..Len(script.panels) :
                \E p \in PositionsOf("panel") :
                    /\ trace[p].n = i
                    /\ \A w \in PositionsOf("save") : p < w
          /\ registry_file = RegistryFile(RegistryOf(characters_cache))

\* both panels of a run failed and the registry was written all the same
C17_Witness ==
    /\ pc = "assemble"
    /\ Len(script.panels) = 2
    /\ \A i \in 1..Len(Attempts) : Attempts[i].result # "ok"
    /\ Len(Attempts) = 2
    /\ registry_file # NoFile

----------------------------------------------------------------------------
(* panel image files and visual references *)

\* the attempt of the current run at panel p, as a set of trace positions
AttemptOk(p) == \E i \in PositionsOf("panel") : trace[i].n = p /\ trace[i].result = "ok"

\* titles with blanks, runs of blanks and characters unsafe in file names
PathTitles ==
    {<<>>, <<"Saga">>, <<"Saga", " ", "fire">>, <<"Oga:", " ", " ", "Saga">>,
     <<"PANEL 1:", "\t", "cave">>}

\* C18: the path generate_panel_image saves panel p under is the path the
\* reference manager rebuilds for p, for the sample titles (compared between
\* runs) and for the title of every script at hand, so that a panel whose
\* image was saved in this run is loaded by every later panel of the run that
\* selects it
C18_SavedPathIsReferencePath ==
    /\ pc = "idle" =>
          \A t \in PathTitles, p \in 1..MaxRunPanels :
              PanelImagePath(t, p) = _get_panel_image_path(p, t)
    /\ \A p \in 1..Len(script.panels) :
          PanelImagePath(script.title, p) = _get_panel_image_path(p, script.title)
    /\ (pc \in {"images", "assemble"} /\ ref_panel > 0) =>
          \A r \in 1..(ref_panel - 1) :
              (Contains(ref_result.returned, r) /\ AttemptOk(r))
                  => Contains(ref_result.loaded, r)

\* panel 2 of a run selected panel 1, saved earlier in that run, and loaded it
C18_Witness ==
    /\ pc = "images"
    /\ run = 1
    /\ ref_panel = 2
    /\ AttemptOk(1)
    /\ ref_result.returned = <<1>>
    /\ ref_result.loaded = <<1>>

\* the panel the last generate_panel_image call worked on
Generated == script.panels[ref_panel]

\* the reference panels whose image file exists and opens
Usable(reference_panels) ==
    SelectSeq(reference_panels,
              LAMBDA r : /\ PanelImagePath(script.title, r) \in files
                         /\ PanelImagePath(script.title, r) \notin unreadable)

\* C19: the images build_visual_references returns are those of the selected
\* reference panels whose file exists and opens, in selection order; the
\* panel records the whole selection; a missing or damaged reference does not
\* fail the generation, whose outcome is that of the backend response
C19_UnusableReferencesSkipped ==
    pc = "generated" =>
        /\ ref_result.loaded = Usable(ref_result.returned)
        /\ Generated.reference_panels = ref_result.returned
        /\ trace[Len(trace)].result = ResponseResult(response)

\* panel 3 selected panels 1 and 2; one image was missing or damaged, the
\* other was loaded, and the panel's image was generated
C19_Witness ==
    /\ pc = "generated"
    /\ ref_result.returned = <<1, 2>>
    /\ Len(ref_result.loaded) = 1
    /\ PanelImagePath(script.title, 1) \in unreadable
    /\ trace[Len(trace)].result = "ok"
    /\ Generated.image_path # <<>>

\* the backend answered and its response holds no image part
NoImageInResponse ==
    /\ ~response.raised
    /\ \A k \in 1..Len(response.parts) : response.parts[k] # "image"

\* C20: a response without parts or without image part makes
\* generate_panel_image raise: the panel keeps image_path unset, no path is
\* added to the returned list, no file is written and a failure message
\* naming the panel is emitted
C20_MissingImageReported ==
    (pc = "generated" /\ NoImageInResponse) =>
        /\ trace[Len(trace)].result \in {"no_parts", "no_image"}
        /\ Generated.image_path = <<>>
        /\ image_paths = <<>>
        /\ PanelImagePath(script.title, ref_panel) \in files => ref_panel < MaxImagePanels
        /\ \E k \in 1..Len(progress) :
              /\ progress[k][1] = "failed"
              /\ progress[k][2] = ref_panel
        /\ \A k \in 1..Len(progress) : progress[k][1] # "saved"

\* the backend answered panel 2 with text only
C20_Witness ==
    /\ pc = "generated"
    /\ ref_panel = 2
    /\ response = [raised |-> FALSE, parts |-> <<"text", "text">>]
    /\ trace[Len(trace)].result = "no_image"

----------------------------------------------------------------------------
(* image prompts *)

\* a occurs in b as a run of consecutive tokens
IsInfix(a, b) ==
    \E i \in 0..(Len(b) - Len(a)) : SubSeq(b, i + 1, i + Len(a)) = a

\* C21: the image prompt stored for a parsed panel holds none of the panel's
\* dialogue lines and not its narration text word for word
C21_PromptWithoutDialogue ==
    pc = "parsed" =>
        \A i \in 1..Len(script.panels) :
            LET panel == script.panels[i]
            IN /\ \A k \in 1..Len(panel.dialogue) :
                     ~IsInfix(panel.dialogue[k], panel.image_prompt.scene)
               /\ panel.narration # <<>> =>
                     ~IsInfix(panel.narration, panel.image_prompt.scene)

\* C22: the image prompt stored for a panel of a parsed Script is the prompt
\* of the panel's current fields: it names the panel_number the panel has
\* after the renumbering and its scene_description
C22_PromptNamesFinalNumber ==
    pc = "parsed" =>
        \A i \in 1..Len(script.panels) :
            script.panels[i].image_prompt =
                [number |-> script.panels[i].panel_number,
                 scene |-> script.panels[i].scene_description]

----------------------------------------------------------------------------
(* speakers of a panel *)

RECURSIVE Distinct(_)
\* a list without the later repetitions of its entries
Distinct(s) ==
    IF s = <<>> THEN <<>>
    ELSE LET front == Distinct(SubSeq(s, 1, Len(s) - 1))
         IN IF Contains(front, s[Len(s)]) THEN front ELSE Append(front, s[Len(s)])

\* the title-cased speaker names of a dialogue, each once, in order of first
\* mention
FirstMentions(dialogue) ==
    LET names == _extract_character_names_from_dialogue(dialogue)
    IN Distinct([k \in 1..Len(names) |-> StrTitle(names[k])])

\* C23: after extract_characters_from_script, characters_in_panel of every
\* panel lists the distinct speakers of the panel's dialogue, title-cased, in
\* order of first mention
C23_SpeakersInMentionOrder ==
    pc = "extracted" =>
        \A i \in 1..Len(script.panels) :
            script.panels[i].characters_in_panel = FirstMentions(script.panels[i].dialogue)

----------------------------------------------------------------------------
(* _sanitize_filename character by character: a file name is a sequence of  *)
(* one-character strings.  Both copies of the function are applied to names *)
(* around the length limit and then to their own output.                    *)

MaxNameChars == 2

NameChars == {"a", "?", " ", "\t"}

\* the character strings of up to n characters
NameStrings(n) == UNION {[1..k -> NameChars] : k \in 0..n}

\* lengths of the run of letters put between the two ends of a name, so that
\* the names reach from the empty name to names beyond the limit
FillLengths == {0, MaxFilenameLength - 2, MaxFilenameLength - 1}

Fill(n) == [i \in 1..n |-> "a"]

Names(n) == {a \o Fill(k) \o b : a \in NameStrings(n), b \in NameStrings(n), k \in FillLengths}

InitSanitize ==
    /\ pc = "name_given"
    /\ call \in {[input |-> name, result |-> <<>>, first_input |-> name] : name \in Names(MaxNameChars)}
    /\ script = NoScript
    /\ characters_cache = EmptyCache
    /\ script_text = <<>>
    /\ registry_file = NoFile
    /\ files = {}
    /\ unreadable = {}
    /\ image_paths = <<>>
    /\ idx = 0
    /\ progress = <<>>
    /\ trace = <<>>
    /\ outcome = <<>>
    /\ run = 0
    /\ ref_panel = 0
    /\ ref_result = NoResult
    /\ response = NoResponse
    /\ tasks = NoTasks
    /\ request = NoRequest

\* the name to sanitize: the given one, then the output of the first call
NextName == IF pc = "name_given" THEN call.input ELSE call.result[1]

AfterSanitize == IF pc = "name_given" THEN "sanitized" ELSE "sanitized_again"

\* ImageGeneratorService._sanitize_filename(filename)
SanitizeImageName ==
    /\ pc \in {"name_given", "sanitized"}
    /\ call' = [call EXCEPT !.input = NextName,
                            !.result = <<ImageGenerator_sanitize(NextName)>>]
    /\ pc' = AfterSanitize
    /\ UNCHANGED <<request, tasks, unreadable, response, script_text, script, characters_cache,
                   registry_file, files, image_paths, idx, progress, trace, outcome, run,
                   ref_panel, ref_result>>

\* PanelReferenceManager._sanitize_filename(filename)
SanitizeReferenceName ==
    /\ pc \in {"name_given", "sanitized"}
    /\ call' = [call EXCEPT !.input = NextName,
                            !.result = <<PanelReference_sanitize(NextName)>>]
    /\ pc' = AfterSanitize
    /\ UNCHANGED <<request, tasks, unreadable, response, script_text, script, characters_cache,
                   registry_file, files, image_paths, idx, progress, trace, outcome, run,
                   ref_panel, ref_result>>

NextSanitize == SanitizeImageName \/ SanitizeReferenceName

SpecSanitize == InitSanitize /\ [][NextSanitize]_vars

\* C24: the sanitized name has at most 50 characters, none of them unsafe or
\* whitespace, and sanitizing it again, with either copy, returns it unchanged
C24_SanitizeIdempotent ==
    /\ pc \in {"sanitized", "sanitized_again"} =>
          /\ Len(call.result[1]) <= MaxFilenameLength
          /\ \A i \in 1..Len(call.result[1]) :
                call.result[1][i] \notin InvalidChars \cup SpaceChars
    /\ pc = "sanitized_again" => call.result[1] = call.input

\* a name of more than 50 characters holding unsafe characters and blanks was
\* cut to 50 and sanitized a second time
C24_Witness ==
    /\ pc = "sanitized_again"
    /\ Len(call.first_input) > MaxFilenameLength
    /\ Len(call.input) = MaxFilenameLength
    /\ \E i \in 1..Len(call.first_input) : call.first_input[i] \in InvalidChars
    /\ \E i \in 1..Len(call.first_input) : call.first_input[i] \in SpaceChars

----------------------------------------------------------------------------
(* create_reference_context_prompt on lists of panel numbers.  The sentence *)
(* is a sequence of pieces: fixed text, or a panel number as str() prints   *)
(* it.                                                                      *)

MaxContextPanels == 4

\* the lists of up to n panel numbers out of 1..n, in any order, repetitions
\* included
PanelLists(n) == UNION {[1..k -> 1..n] : k \in 0..n}

InitContext ==
    /\ pc = "panels_given"
    /\ call \in {[input |-> l, result |-> <<>>] : l \in PanelLists(MaxContextPanels)}
    /\ script = NoScript
    /\ characters_cache = EmptyCache
    /\ script_text = <<>>
    /\ registry_file = NoFile
    /\ files = {}
    /\ unreadable = {}
    /\ image_paths = <<>>
    /\ idx = 0
    /\ progress = <<>>
    /\ trace = <<>>
    /\ outcome = <<>>
    /\ run = 0
    /\ ref_panel = 0
    /\ ref_result = NoResult
    /\ response = NoResponse
    /\ tasks = NoTasks
    /\ request = NoRequest

\* PanelReferenceManager.create_reference_context_prompt(reference_panels)
CreateReferenceContextPrompt ==
    /\ pc = "panels_given"
    /\ call' = [call EXCEPT !.result = create_reference_context_prompt(call.input)]
    /\ pc' = "rendered"
    /\ UNCHANGED <<request, tasks, unreadable, response, script_text, script, characters_cache,
                   registry_file, files, image_paths, idx, progress, trace, outcome, run,
                   ref_panel, ref_result>>

NextContext == CreateReferenceContextPrompt

SpecContext == InitContext /\ [][NextContext]_vars

\* the panel numbers a sentence names, in the order it names them
NumbersNamed(sentence) ==
    LET numbers == SelectSeq(sentence, LAMBDA piece : DOMAIN piece = {"panel"})
    IN [k \in 1..Len(numbers) |-> numbers[k].panel]

\* the pieces of a sentence between its first and its last piece
ListPart(sentence) == SubSeq(sentence, 2, Len(sentence) - 1)

\* C25: the sentence is empty for no panel, names "panel X" for one panel and
\* "panels A, B and C" for more: the given numbers once each in the given
\* order, a comma after each but the last two, "and" before the last
C25_ListGrammar ==
    pc = "rendered" =>
        LET given == call.input
            n == Len(given)
            sentence == call.result
        IN /\ n = 0 => sentence = <<>>
           /\ n >= 1 =>
                 /\ NumbersNamed(sentence) = given
                 /\ sentence[Len(sentence)] = ContextSuffix
                 /\ Len(ListPart(sentence)) = 2 * n - 1
                 /\ \A k \in 1..n : ListPart(sentence)[2 * k - 1] = Number(given[k])
                 /\ \A k \in 1..(n - 2) : ListPart(sentence)[2 * k] = Text(", ")
                 /\ n >= 2 => ListPart(sentence)[2 * n - 2] = Text(" and ")
           /\ n = 1 => sentence[1] = Text("Use the reference image from panel ")
           /\ n >= 2 => sentence[1] = Text("Use the reference images from panels ")

\* three panels were rendered as "panels 3, 1 and 2"
C25_Witness ==
    /\ pc = "rendered"
    /\ call.input = <<3, 1, 2>>
    /\ ListPart(call.result) = <<Number(3), Text(", "), Number(1), Text(" and "), Number(2)>>

\* C26: a reference-context sentence put before a panel's prompt names
\* exactly the panels whose images are attached to the same backend request
C26_ContextNamesAttachedImages ==
    pc = "generated" =>
        (request.context # <<>> => NumbersNamed(request.context) = request.images)

\* the numbers of the panels of the current script in whose dialogue the
\* character named name speaks
SpeakingPanels(name) ==
    {script.panels[i].panel_number : i \in
        {i \in 1..Len(script.panels) :
            \E n \in TitledNames(script.panels[i].dialogue) : StrLower(n) = StrLower(name)}}

\* C27: after load-then-extract, the reference_panels of every character of
\* the script are numbers of panels of this script in which the character
\* speaks, and first_appearance_panel is the smallest of them
C27_ReferencesWithinCurrentScript ==
    pc = "images" =>
        \A i \in 1..Len(script.characters) :
            LET character == script.characters[i]
            IN /\ Range(character.reference_panels) \subseteq SpeakingPanels(character.name)
               /\ character.first_appearance_panel = Min(SpeakingPanels(character.name))

----------------------------------------------------------------------------
(* save_characters followed by load_characters on the same registry file    *)

\* a character an earlier load left in the cache: taken from a registry entry
\* without reference_panels and first_appearance_panel, its name in capitals
LoadedWithoutPanels ==
    [k \in {"oga"} |-> NewCharacter("OGA", <<"cave">>)]

\* the caches a manager can hold before the extraction: empty, or loaded from
\* a registry an earlier process wrote
EarlierCaches ==
    {EmptyCache, load_characters(EmptyCache, RegistryFile(SavedRegistry)), LoadedWithoutPanels}

InitRegistry ==
    /\ pc = "parsed"
    /\ script \in RefScripts(MaxImagePanels, MaxImageLines)
    /\ characters_cache \in EarlierCaches
    /\ registry_file \in {NoFile, InvalidJson}
    /\ script_text = <<>>
    /\ files = {}
    /\ unreadable = {}
    /\ image_paths = <<>>
    /\ idx = 0
    /\ progress = <<>>
    /\ trace = <<>>
    /\ outcome = <<>>
    /\ run = 0
    /\ ref_panel = 0
    /\ ref_result = NoResult
    /\ response = NoResponse
    /\ call = NoCall
    /\ tasks = NoTasks
    /\ request = NoRequest

\* CharacterManagerService.save_characters()
SaveRegistry ==
    /\ pc = "extracted"
    /\ registry_file' = RegistryFile(RegistryOf(characters_cache))
    /\ pc' = "saved"
    /\ UNCHANGED <<request, call, tasks, unreadable, response, script_text, script, characters_cache,
                   files, image_paths, idx, progress, trace, outcome, run, ref_panel, ref_result>>

\* CharacterManagerService.load_characters() on the file just saved
ReloadRegistry ==
    /\ pc = "saved"
    /\ characters_cache' = load_characters(characters_cache, registry_file)
    /\ pc' = "reloaded"
    /\ UNCHANGED <<request, call, tasks, unreadable, response, script_text, script, registry_file,
                   files, image_paths, idx, progress, trace, outcome, run, ref_panel, ref_result>>

\* names and descriptions a caller passes to update_character_description
UpdateNames == {"Oga", "ila", "Uma"}
UpdateDescriptions(name) ==
    {_generate_character_description(name, context) : context \in {<<>>, <<"old">>}}

\* CharacterManagerService.update_character_description(name, description),
\* called between the extraction and save_characters
UpdateCharacterDescription ==
    /\ pc = "extracted"
    /\ \E name \in UpdateNames :
        \E description \in UpdateDescriptions(name) :
            LET cache == update_character_description(characters_cache, name, description)
            IN /\ characters_cache' = cache
               /\ script' = IF StrLower(name) \in DOMAIN cache
                             THEN [script EXCEPT !.characters =
                                      SharedCharacter(@, cache[StrLower(name)])]
                             ELSE script
    /\ UNCHANGED <<request, call, tasks, pc, unreadable, response, script_text, registry_file,
                   files, image_paths, idx, progress, trace, outcome, run, ref_panel,
                   ref_result>>

NextRegistry ==
    \/ ExtractCharacters
    \/ UpdateCharacterDescription
    \/ SaveRegistry
    \/ ReloadRegistry

SpecRegistry == InitRegistry /\ [][NextRegistry]_vars

\* C28: load_characters after save_characters on the same file leaves the
\* cache with the keys it had and, under each key, a character of equal name,
\* visual_description, reference_panels and first_appearance_panel
C28_RegistryRoundTrip ==
    [][(pc = "saved" /\ pc' = "reloaded") =>
          /\ DOMAIN characters_cache' = DOMAIN characters_cache
          /\ \A k \in DOMAIN characters_cache :
                /\ characters_cache'[k].name = characters_cache[k].name
                /\ characters_cache'[k].visual_description = characters_cache[k].visual_description
                /\ characters_cache'[k].reference_panels = characters_cache[k].reference_panels
                /\ characters_cache'[k].first_appearance_panel
                       = characters_cache[k].first_appearance_panel]_vars

\* a cache of two characters, one of them seen in two panels, went through
\* the file and came back
C28_Witness ==
    /\ pc = "reloaded"
    /\ registry_file = RegistryFile(RegistryOf(characters_cache))
    /\ Cardinality(DOMAIN characters_cache) = 2
    /\ \E k \in DOMAIN characters_cache : Len(characters_cache[k].reference_panels) = 2

----------------------------------------------------------------------------
(* Character.get_reference_panels on the characters add_appearance builds   *)

MaxCharPanels == 4

\* the lists of distinct panel numbers out of 1..n
DistinctLists(n) ==
    {l \in UNION {[1..k -> 1..n] : k \in 0..n} : \A i, j \in DOMAIN l : l[i] = l[j] => i = j}

RECURSIVE AddAppearances(_, _)
\* add_appearance called for each panel of the list in turn
AddAppearances(ch, panel_numbers) ==
    IF panel_numbers = <<>> THEN ch
    ELSE AddAppearances(add_appearance(ch, Head(panel_numbers)), Tail(panel_numbers))

\* a character as registered and after add_appearance for the panels of a
\* list, in the order of the list
Characters(n) == {AddAppearances(NewCharacter("Oga", <<>>), l) : l \in DistinctLists(n)}

\* the method takes any integer as max_references and tests none; the only
\* call in the repository, in Script.get_character_reference_panels, passes
\* the default 3
InitCharacter ==
    /\ pc = "character_given"
    /\ call \in {[input |-> [character |-> ch, max_references |-> m], result |-> <<>>] :
                    ch \in Characters(MaxCharPanels), m \in (-1)..MaxCharPanels}
    /\ script = NoScript
    /\ characters_cache = EmptyCache
    /\ script_text = <<>>
    /\ registry_file = NoFile
    /\ files = {}
    /\ unreadable = {}
    /\ image_paths = <<>>
    /\ idx = 0
    /\ progress = <<>>
    /\ trace = <<>>
    /\ outcome = <<>>
    /\ run = 0
    /\ ref_panel = 0
    /\ ref_result = NoResult
    /\ response = NoResponse
    /\ tasks = NoTasks
    /\ request = NoRequest

\* character.get_reference_panels(max_references): the list returned and the
\* character as the call leaves it (the method assigns to no field and sorts
\* only lists it built itself)
GetReferencePanels ==
    /\ pc = "character_given"
    /\ call' = [input |-> call.input,
                result |-> get_reference_panels(call.input.character, call.input.max_references),
                character |-> call.input.character]
    /\ pc' = "references_returned"
    /\ UNCHANGED <<request, tasks, unreadable, response, script_text, script, characters_cache,
                   registry_file, files, image_paths, idx, progress, trace, outcome, run,
                   ref_panel, ref_result>>

NextCharacter == GetReferencePanels

SpecCharacter == InitCharacter /\ [][NextCharacter]_vars

\* what get_reference_panels returned is ascending without duplicates, holds
\* only recorded panels, holds first_appearance_panel when it is set, otherwise
\* the largest other recorded panels, is empty for a character without
\* recorded panel, and the character's fields are as before the call
ReferencesWellChosen ==
    LET ch == call.input.character
        out == call.result
        first == ch.first_appearance_panel
        others == Range(ch.reference_panels) \ {first}
    IN /\ \A i, j \in 1..Len(out) : i < j => out[i] < out[j]
       /\ Range(out) \subseteq Range(ch.reference_panels)
       /\ first # NoPanel => Contains(out, first)
       /\ \A p \in Range(out) \ {first} : \A q \in others \ Range(out) : q < p
       /\ ch.reference_panels = <<>> => out = <<>>
       /\ call.character = ch

\* C29: the list get_reference_panels returns is well chosen for every
\* max_references, and for a max_references that is a count of references,
\* 1 or more, it has at most max_references entries, as many as there are
\* recorded panels up to that count.  (Below 1 the bound and the presence of
\* the first appearance exclude each other; the list is then the first
\* appearance alone.)
C29_AtMostMaxReferences ==
    pc = "references_returned" =>
        /\ ReferencesWellChosen
        /\ call.input.max_references >= 1 =>
              /\ Len(call.result) <= call.input.max_references
              /\ Len(call.result) = Min({call.input.max_references,
                                         Len(call.input.character.reference_panels)})
        /\ (call.input.max_references < 1 /\ call.input.character.reference_panels # <<>>) =>
              call.result = <<call.input.character.first_appearance_panel>>

\* a character first seen in panel 2, then in 4, 1 and 3, asked for two
\* references: the first appearance and the latest other panel
C29_Witness ==
    /\ pc = "references_returned"
    /\ call.input.character.reference_panels = <<2, 4, 1, 3>>
    /\ call.input.max_references = 2
    /\ call.result = <<2, 4>>

----------------------------------------------------------------------------
(* api_server: the task table of the HTTP API.  The endpoints and the        *)
(* background task are coroutines without await, so each runs to its end    *)
(* before the event loop serves anything else; the background task is cut   *)
(* at the call of generator.generate_comic to show the statuses it passes   *)
(* through.                                                                 *)

MaxTasks == 3

\* request.event as sent by a client
RequestEvents == {<<>>, <<" ">>, <<"cave">>}

\* str(uuid.uuid4()): an id no task has yet
NewTaskId(table) == Len(table) + 1

\* generate_comic_endpoint, lines 149-154
StartedTask ==
    [status |-> "started", progress |-> "Initializing comic generation...",
     error |-> <<>>, result |-> <<>>]

\* os.path.join("static", f"comic_{task_id}.png") and f"/static/comic_{task_id}.png"
StaticPath(task_id) == <<"static", "comic", task_id>>
ComicUrl(task_id) == <<"/static", "comic", task_id>>

\* the script text the script backend answers a request of the API with
ComicTexts ==
    {<<"TITLE:", " ", "Saga", "\n", "PANEL 1:", "\n", "SCENE:", " ", "cave", "\n",
       "DIALOGUE:", " ", "Oga:", " ", "hi", "\n">>}

\* ComicGenerator.generate_comic, lines 94-116, once generate_script returned
\* text: what the call returns or raises, and the cache, the registry file and
\* the output directory it leaves.  order is the order of the name sets of the
\* extraction, results[i] the outcome of generate_panel_image for panel i.
ComicRunEnd(text, cache, file, disk, cannot_open, order, results) ==
    LET parsed == parse_script(Strip(text))
        st == extract_characters_from_script(parsed, load_characters(cache, file), order)
        path(i) == PanelImagePath(parsed.title, st.panels[i].panel_number)
        saved == {path(i) : i \in {i \in 1..Len(st.panels) : results[i] = "ok"}}
        panels == [i \in 1..Len(st.panels) |->
                      IF results[i] = "ok"
                      THEN [st.panels[i] EXCEPT !.image_path = <<path(i)>>]
                      ELSE st.panels[i]]
        assembled == _all_panels_have_images(panels, disk \cup saved) /\ Len(panels) > 0
    IN [outcome |-> IF assembled THEN <<"ok", ComicPath(parsed.title)>> ELSE Raised,
        cache |-> st.cache,
        registry_file |-> RegistryFile(RegistryOf(st.cache)),
        files |-> disk \cup saved \cup (IF assembled THEN {ComicPath(parsed.title)} ELSE {}),
        unreadable |-> cannot_open \ saved]

\* what a call of generator.generate_comic can end in: generate_script raised
\* and nothing was touched, or the run went on to its end
ComicRuns(cache, file, disk, cannot_open) ==
    {[outcome |-> Raised, cache |-> cache, registry_file |-> file, files |-> disk,
      unreadable |-> cannot_open]}
    \cup UNION {{ComicRunEnd(text, cache, file, disk, cannot_open, order, results) :
                    order \in SetOrders(parse_script(Strip(text)).panels),
                    results \in [1..Len(parse_script(Strip(text)).panels) -> BackendResults]} :
                text \in ComicTexts}

\* str(e) of the exception caught at line 195
ErrorText(generated, copied) ==
    IF generated[1] # "ok" THEN "generation failed" ELSE "copy failed"

\* a background task that reports success whatever happened
FinishedTask_AlwaysCompleted(task, task_id, generated, copied) ==
    [task EXCEPT !.status = "completed",
                 !.progress = "Comic generated successfully!",
                 !.result = <<[comic_path |-> StaticPath(task_id),
                               comic_url |-> ComicUrl(task_id)]>>]

\* generate_comic_background after generator.generate_comic, lines 179-198:
\* the task entry once the comic was copied to static/, or once generate_comic
\* or shutil.copy2 raised
FinishedTask(task, task_id, generated, copied) ==
    IF generated[1] = "ok" /\ copied
    THEN [task EXCEPT !.status = "completed",
                      !.progress = "Comic generated successfully!",
                      !.result = <<[comic_path |-> StaticPath(task_id),
                                    comic_url |-> ComicUrl(task_id)]>>]
    ELSE [task EXCEPT !.status = "error",
                      !.error = <<ErrorText(generated, copied)>>]

\* the body get_task_status returns for a task
StatusBody(task) ==
    IF task.status = "completed"
    THEN [code |-> 200, status |-> "completed", success |-> TRUE,
          comic_url |-> task.result[1].comic_url, progress |-> task.progress]
    ELSE IF task.status = "error"
    THEN [code |-> 200, status |-> "error", success |-> FALSE, error |-> task.error]
    ELSE [code |-> 200, status |-> task.status, success |-> FALSE, progress |-> task.progress]

NotFound == [code |-> 404, detail |-> "Task not found"]
EventRequired == [code |-> 400, detail |-> "Event description is required"]

\* the task whose background coroutine is running
Generating == CHOOSE task_id \in DOMAIN tasks : tasks[task_id].status = "generating"

InitApi ==
    /\ pc = "serving"
    /\ tasks = NoTasks
    /\ call = NoCall
    /\ outcome = Running
    /\ script = NoScript
    /\ characters_cache = EmptyCache
    /\ script_text = <<>>
    /\ registry_file = NoFile
    /\ files = {}
    /\ unreadable = {}
    /\ image_paths = <<>>
    /\ idx = 0
    /\ progress = <<>>
    /\ trace = <<>>
    /\ run = 0
    /\ ref_panel = 0
    /\ ref_result = NoResult
    /\ response = NoResponse
    /\ request = NoRequest

\* POST /api/generate-comic
GenerateComicEndpoint ==
    /\ pc = "serving"
    /\ Len(tasks) < MaxTasks
    /\ \E event \in RequestEvents :
        IF Strip(event) = <<>>
        THEN /\ call' = [input |-> <<"generate-comic", event>>, result |-> EventRequired]
             /\ tasks' = tasks
        ELSE /\ tasks' = Append(tasks, StartedTask)
             /\ call' = [input |-> <<"generate-comic", event>>,
                         result |-> [code |-> 200, success |-> TRUE, task_id |-> NewTaskId(tasks)]]
    /\ UNCHANGED <<request, pc, unreadable, response, script_text, script, characters_cache,
                   registry_file, files, image_paths, idx, progress, trace, outcome, run,
                   ref_panel, ref_result>>

\* generate_comic_background, lines 173-174, once the response of the
\* endpoint was sent
GenerateComicBackgroundStart ==
    /\ pc = "serving"
    /\ \E task_id \in DOMAIN tasks :
        /\ tasks[task_id].status = "started"
        /\ tasks' = [tasks EXCEPT ![task_id].status = "generating",
                                  ![task_id].progress = "Generating comic script and images..."]
    /\ pc' = "background"
    /\ UNCHANGED <<request, call, unreadable, response, script_text, script, characters_cache,
                   registry_file, files, image_paths, idx, progress, trace, outcome, run,
                   ref_panel, ref_result>>

\* generate_comic_background, line 177: generator.generate_comic returns or
\* raises, having worked on the cache, the registry file and the output
\* directory of the generator; outcome is what the background task got.  The
\* script and the messages of the run are gone when the call is over.
GenerateComicCalled ==
    /\ pc = "background"
    /\ \E end \in ComicRuns(characters_cache, registry_file, files, unreadable) :
        /\ outcome' = end.outcome
        /\ characters_cache' = end.cache
        /\ registry_file' = end.registry_file
        /\ files' = end.files
        /\ unreadable' = end.unreadable
    /\ pc' = "comic_called"
    /\ UNCHANGED <<request, call, tasks, response, script_text, script, image_paths, idx,
                   progress, trace, run, ref_panel, ref_result>>

\* generate_comic_background, lines 179-198
GenerateComicBackgroundEnd ==
    /\ pc = "comic_called"
    /\ \E copied \in BOOLEAN :
        tasks' = [tasks EXCEPT ![Generating] = FinishedTask(@, Generating, outcome, copied)]
    /\ pc' = "serving"
    /\ UNCHANGED <<request, call, unreadable, response, script_text, script, characters_cache,
                   registry_file, files, image_paths, idx, progress, trace, outcome, run,
                   ref_panel, ref_result>>

\* GET /api/task-status/{task_id}
GetTaskStatus ==
    /\ pc = "serving"
    /\ \E task_id \in 1..(MaxTasks + 1) :
        call' = [input |-> <<"task-status", task_id>>,
                 result |-> IF task_id \notin DOMAIN tasks THEN NotFound
                            ELSE StatusBody(tasks[task_id])]
    /\ UNCHANGED <<request, tasks, pc, unreadable, response, script_text, script,
                   characters_cache, registry_file, files, image_paths, idx, progress, trace,
                   outcome, run, ref_panel, ref_result>>

\* GET /api/generate-comic-sync: the comic is generated within the request,
\* on the generator's cache, registry file and output directory, and no task
\* is recorded
GenerateComicSync ==
    /\ pc = "serving"
    /\ \E event \in RequestEvents :
        IF Strip(event) = <<>>
        THEN /\ call' = [input |-> <<"generate-comic-sync", event>>, result |-> EventRequired]
             /\ UNCHANGED <<characters_cache, registry_file, files, unreadable>>
        ELSE \E end \in ComicRuns(characters_cache, registry_file, files, unreadable),
                copied \in BOOLEAN :
                /\ call' = [input |-> <<"generate-comic-sync", event>>,
                            result |-> IF end.outcome[1] = "ok" /\ copied
                                       THEN [code |-> 200, success |-> TRUE]
                                       ELSE [code |-> 200, success |-> FALSE,
                                             error |-> <<ErrorText(end.outcome, copied)>>]]
                /\ characters_cache' = end.cache
                /\ registry_file' = end.registry_file
                /\ files' = end.files
                /\ unreadable' = end.unreadable
    /\ UNCHANGED <<request, tasks, pc, response, script_text, script, image_paths, idx,
                   progress, trace, outcome, run, ref_panel, ref_result>>

NextApi ==
    \/ GenerateComicEndpoint
    \/ GenerateComicBackgroundStart
    \/ GenerateComicCalled
    \/ GenerateComicBackgroundEnd
    \/ GetTaskStatus
    \/ GenerateComicSync

\* the background coroutine goes on to its end once generate_comic returned
\* or raised
SpecApi == InitApi /\ [][NextApi]_vars /\ WF_vars(GenerateComicBackgroundEnd)

\* the moves of a task's status the HTTP API allows
StatusMoves ==
    {<<"started", "generating">>, <<"generating", "completed">>, <<"generating", "error">>}

\* C30: a task is created as started and its status moves only from started
\* to generating and from generating to completed or error, after which the
\* task never changes; a task becomes completed only when generate_comic
\* returned a path, and its result then holds its comic_url; a task whose
\* generation raised ends in error with the error text stored; asking for the
\* status of an unknown id answers 404 and creates no task
C30_TaskStatusLifecycle ==
    /\ [][/\ DOMAIN tasks \subseteq DOMAIN tasks'
          /\ \A task_id \in DOMAIN tasks' \ DOMAIN tasks : tasks'[task_id] = StartedTask
          /\ \A task_id \in DOMAIN tasks :
                /\ tasks'[task_id].status # tasks[task_id].status
                      => <<tasks[task_id].status, tasks'[task_id].status>> \in StatusMoves
                /\ tasks[task_id].status \in {"completed", "error"}
                      => tasks'[task_id] = tasks[task_id]
                /\ (tasks[task_id].status # "completed" /\ tasks'[task_id].status = "completed")
                      => /\ pc = "comic_called"
                         /\ outcome[1] = "ok"
                         /\ tasks'[task_id].result # <<>>
                         /\ tasks'[task_id].result[1].comic_url = ComicUrl(task_id)]_vars
    /\ [](\A task_id \in DOMAIN tasks :
             /\ tasks[task_id].status = "completed"
                   => (tasks[task_id].result # <<>> /\ tasks[task_id].error = <<>>)
             /\ tasks[task_id].status = "error"
                   => (tasks[task_id].error # <<>> /\ tasks[task_id].result = <<>>))
    /\ [][(call' # call /\ call'.input[1] = "task-status"
              /\ call'.input[2] \notin DOMAIN tasks)
          => (call'.result = NotFound /\ tasks' = tasks)]_vars
    /\ \A task_id \in 1..MaxTasks :
          (/\ pc = "comic_called"
           /\ outcome = Raised
           /\ task_id \in DOMAIN tasks
           /\ tasks[task_id].status = "generating")
          ~> (/\ task_id \in DOMAIN tasks
              /\ tasks[task_id].status = "error"
              /\ tasks[task_id].error = <<"generation failed">>)

\* one task completed with its comic_url, another ended in error after its
\* generation raised, and the status of an id never issued was asked for
C30_Witness ==
    /\ \E task_id \in DOMAIN tasks :
          /\ tasks[task_id].status = "completed"
          /\ tasks[task_id].result[1].comic_url = ComicUrl(task_id)
    /\ \E task_id \in DOMAIN tasks :
          /\ tasks[task_id].status = "error"
          /\ tasks[task_id].error = <<"generation failed">>
    /\ call.input = <<"task-status", Len(tasks) + 1>>
    /\ call.result = NotFound

====
